---- MODULE Spec2Model ----
(***************************************************************************)
(* A model of the body decoders of the wellen waveform library:            *)
(*   - the GHW bit-vector change buffer (src/src/ghw/signals.rs, VecBuffer *)
(*     and read_signal_value / finish_time_step),                          *)
(*   - the GHW cycle section reader (read_cycle_section),                  *)
(*   - the VCD body reader and its chunked, multi-threaded driver          *)
(*     (src/src/vcd.rs, BodyReader, read_single_stream_of_values,          *)
(*     read_values).                                                       *)
(* Each part has its own specification (SpecVec, SpecCycle, SpecVcd) over  *)
(* its own variables; the variables of the other parts stay unchanged.     *)
(***************************************************************************)
EXTENDS Integers, Sequences, FiniteSets, TLC

VARIABLES
    \* ---- GHW change buffer (SpecVec) ----
    decode_info,    \* GhwDecodeInfo.signals: the declared GhwSignals, in order
    vecs,           \* the VecBuffer: info, data, bit_change, change_list, signal_change
    enc,            \* the encoder calls (raw_value_change) made since the last time_change
    step_writes,    \* the updates read by read_signal_value since the last time_change:
                    \* (signal_ref, bit, value), with what the buffer held before the
                    \* update (marked: the bit's bit_change flag, old: the bit's stored
                    \* value, before: the signal's data bytes) and the number of encoder
                    \* calls made before it (enc_at)
    step_start,     \* vecs.data as it was at the last time_change
    phase,          \* "open": inside a timestep; "flushed": right after finish_time_step
    \* ---- the layout of a vector in its data bytes (SpecLayout) ----
    lay_info,       \* the VecBufferInfo of the vector
    lay_slot,       \* the number of slots of the data bytes visited so far
    lay_seen,       \* the bits found in the visited slots, in the order of the visit
    \* ---- GHW cycle section (SpecCycle) ----
    cyc_pc,         \* the position in read_cycle_section
    start_time,     \* its local start_time: u64
    cyc_calls,      \* the encoder calls of the section, in order
    cyc_iter,       \* the number of iterations of its loop that were started
    overflow_checks,\* whether the build panics on integer overflow (debug) or wraps (release)
    cyc_updates,    \* the (delta, value) list that the last read_cycle_signals read
    \* ---- VCD body (SpecVcd) ----
    body,           \* the input of read_values: the bytes after the header, as runs
    multi_thread,   \* the multi_thread argument of read_values
    max_threads,    \* rayon::current_num_threads()
    vcd_pc,         \* "start", "workers", "done" or "panic"
    workers,        \* the state of every call of read_single_stream_of_values
    vcd_result,     \* the events of the encoder that read_values finishes
    \* ---- one call of a function of vcd.rs (SpecBodyReader, SpecIdToInt, ...) ----
    fn_input,       \* the argument of the call
    fn_output,      \* what the call has returned or produced so far
    fn_pc           \* "call": not yet called; "running"; "return": the call is over

vbVars == <<decode_info, vecs, enc, step_writes, step_start, phase>>

layVars == <<lay_info, lay_slot, lay_seen>>

cycVars == <<cyc_pc, start_time, cyc_calls, cyc_iter, overflow_checks, cyc_updates>>

vcdVars == <<body, multi_thread, max_threads, vcd_pc, workers, vcd_result>>

fnVars == <<fn_input, fn_output, fn_pc>>

vars == <<vbVars, layVars, cycVars, vcdVars, fnVars>>

(***************************************************************************)
(* Bounds of the model.                                                    *)
(***************************************************************************)
\* largest vector width that Init declares
MaxBits == 2
\* largest nine-state value (after STD_LOGIC_LUT) that an input byte is given
MaxVal == 1
\* most signal values read within one timestep
MaxWrites == 3
\* largest vector width whose layout is walked
MaxWidth == 9
\* most iterations of the loop of one cycle section
MaxCycles == 2

\* the longest short body, and the length of the bytes around a chunk start
MaxBody == 3

\* the largest number of threads of the rayon pool
MaxThreads == 2

\* the most lines of a body of lines
MaxLines == 2

\* the longest identifier made of the bytes ! c ~
MaxIdLen == 5

\* the longest variable name made of any bytes
MaxNameLen == 4

\* the most brackets of a variable name before its index
MaxBrackets == 3

\* the most whitespace bytes around the parts of a header command
MaxSpace == 3

\* the most $var commands of a header
MaxVars == 3

\* the most sections after the hierarchy
MaxSections == 4

\* the most tokens of a body of tokens
MaxTokens == 2

\* the longest identifier of a pair of identifiers
MaxPairIdLen == 3

\* the most tokens between $comment and its $end in a body with a comment
MaxComment == 2

(***************************************************************************)
(* u8 arithmetic.                                                          *)
(***************************************************************************)
Pow2(n) == 2 ^ n

BitAt(x, i) == (x \div Pow2(i)) % 2

\* a & b on u8, bit by bit
And8(a, b) ==
      BitAt(a, 0) * BitAt(b, 0)
    + 2 * (BitAt(a, 1) * BitAt(b, 1))
    + 4 * (BitAt(a, 2) * BitAt(b, 2))
    + 8 * (BitAt(a, 3) * BitAt(b, 3))
    + 16 * (BitAt(a, 4) * BitAt(b, 4))
    + 32 * (BitAt(a, 5) * BitAt(b, 5))
    + 64 * (BitAt(a, 6) * BitAt(b, 6))
    + 128 * (BitAt(a, 7) * BitAt(b, 7))

\* a | b on u8
Or8(a, b) == a + b - And8(a, b)

\* !a on u8
Not8(a) == 255 - a

\* a << n on u8 (n < 8): the bits shifted out are dropped
Shl8(a, n) == (a * Pow2(n)) % 256

\* a >> n on u8
Shr8(a, n) == a \div Pow2(n)

div_ceil(a, b) == (a + b - 1) \div b

(***************************************************************************)
(* wavemem::States: the number of bits one signal bit takes in the data    *)
(* bytes (1 for two-state, 4 for nine-state), its mask, and the number of  *)
(* signal bits that fit into one byte.                                     *)
(***************************************************************************)
States_bits(states) == IF states = "Two" THEN 1 ELSE 4

States_mask(states) == Pow2(States_bits(states)) - 1

States_bits_in_a_byte(states) == 8 \div States_bits(states)

(***************************************************************************)
(* VecBufferInfo                                                           *)
(***************************************************************************)
None == [none |-> TRUE]

\* the byte indices of bit_change that belong to the signal
change_range(info) ==
    LET start == info.bit_change_start
        len == div_ceil(info.bits, 8)
    IN  start .. (start + len - 1)

\* the byte indices of data that belong to the signal
data_range(info) ==
    LET start == info.data_start
        len == div_ceil(info.bits, States_bits_in_a_byte(info.states))
    IN  start .. (start + len - 1)

\* the slice v[range] as a function from 0
Slice(v, start, len) == [i \in 0..(len - 1) |-> v[start + i]]

(***************************************************************************)
(* VecBuffer::from_decode_info                                             *)
(***************************************************************************)
IsVecBit(tpe) == tpe.kind \in {"NineStateBit", "TwoStateBit"}

RECURSIVE from_decode_info_loop(_, _, _, _, _)
from_decode_info_loop(signals, i, info, data_start, bit_change_start) ==
    IF i > Len(signals)
    THEN [info |-> info, data_start |-> data_start, bit_change_start |-> bit_change_start]
    ELSE LET signal == signals[i]
         IN  IF info[signal.signal_ref] = None /\ IsVecBit(signal.tpe) /\ signal.tpe.bit = 0
             THEN LET states == IF signal.tpe.kind = "TwoStateBit" THEN "Two" ELSE "Nine"
                      bits == signal.tpe.bits
                      new == [data_start |-> data_start,
                              bit_change_start |-> bit_change_start,
                              bits |-> bits,
                              states |-> states]
                  IN  from_decode_info_loop(signals, i + 1,
                          [info EXCEPT ![signal.signal_ref] = new],
                          data_start + div_ceil(bits, States_bits_in_a_byte(states)),
                          bit_change_start + div_ceil(bits, 8))
             ELSE from_decode_info_loop(signals, i + 1, info, data_start, bit_change_start)

from_decode_info(signals, signal_ref_count) ==
    LET r == from_decode_info_loop(signals, 1,
                 [s \in 0..(signal_ref_count - 1) |-> None], 0, 0)
    IN  [info |-> r.info,
         data |-> [i \in 0..(r.data_start - 1) |-> 0],
         bit_change |-> [i \in 0..(r.bit_change_start - 1) |-> 0],
         change_list |-> <<>>,
         signal_change |-> [i \in 0..(div_ceil(signal_ref_count, 8) - 1) |-> 0]]

(***************************************************************************)
(* VecBuffer: bit and value access                                         *)
(***************************************************************************)
\* mutant: every bit is stored at shift 0 of its byte
get_data_index_shift_zero(bits, bit, states) ==
    <<(bits - 1 - bit) \div States_bits_in_a_byte(states), 0>>

\* (index, shift) of a bit in the data bytes of its signal
get_data_index(bits, bit, states) ==
    LET mirrored == bits - 1 - bit
        index == mirrored \div States_bits_in_a_byte(states)
        shift == (bit % States_bits_in_a_byte(states)) * States_bits(states)
    IN  <<index, shift>>

get_value(vb, info, bit) ==
    LET is == get_data_index(info.bits, bit, info.states)
        byte == vb.data[info.data_start + is[1]]
    IN  And8(Shr8(byte, is[2]), States_mask(info.states))

\* mutant: the byte is overwritten, the other bits it holds are lost
set_value_overwrites_byte(data, info, bit, value) ==
    LET is == get_data_index(info.bits, bit, info.states)
        at == info.data_start + is[1]
    IN  [data EXCEPT ![at] = Shl8(value, is[2])]

\* the data bytes after the write of value to bit
set_value(data, info, bit, value) ==
    LET is == get_data_index(info.bits, bit, info.states)
        at == info.data_start + is[1]
        old_data == And8(data[at], Not8(Shl8(States_mask(info.states), is[2])))
    IN  [data EXCEPT ![at] = Or8(old_data, Shl8(value, is[2]))]

has_bit_changed(vb, info, bit) ==
    BitAt(vb.bit_change[info.bit_change_start + (bit \div 8)], bit % 8) = 1

\* mutant: the bit is not marked
mark_bit_changed_not_marked(change, info, bit) == change

\* the bit_change bytes after marking bit
mark_bit_changed(change, info, bit) ==
    LET at == info.bit_change_start + (bit \div 8)
        mask == Shl8(1, bit % 8)
    IN  [change EXCEPT ![at] = Or8(change[at], mask)]

has_signal_changed(vb, signal_ref) ==
    BitAt(vb.signal_change[signal_ref \div 8], signal_ref % 8) = 1

\* mutant: the signal's flag is set, the signal is not pushed on change_list
mark_signal_changed_no_push(vb, signal_ref) ==
    LET byte == signal_ref \div 8
        bit == signal_ref % 8
    IN  [vb EXCEPT !.signal_change[byte] = Or8(@, Shl8(1, bit))]

mark_signal_changed(vb, signal_ref) ==
    LET byte == signal_ref \div 8
        bit == signal_ref % 8
    IN  [vb EXCEPT !.signal_change[byte] = Or8(@, Shl8(1, bit)),
                   !.change_list = Append(@, signal_ref)]

\* mutant: the comparison with the stored value is inverted
is_second_change_same_value(vb, signal_ref, bit, value) ==
    LET info == vb.info[signal_ref]
    IN  has_bit_changed(vb, info, bit) /\ get_value(vb, info, bit) = value

is_second_change(vb, signal_ref, bit, value) ==
    LET info == vb.info[signal_ref]
    IN  has_bit_changed(vb, info, bit) /\ get_value(vb, info, bit) # value

\* mutant: the signal is pushed on change_list at every real change
update_value_always_pushes(vb, signal_ref, bit, value) ==
    LET info == vb.info[signal_ref]
        is_a_real_change == get_value(vb, info, bit) # value
    IN  IF is_a_real_change
        THEN mark_signal_changed(
                 [vb EXCEPT !.bit_change = mark_bit_changed(@, info, bit),
                            !.data = set_value(@, info, bit, value)], signal_ref)
        ELSE vb

\* mutant: the write is taken for a real change whatever the stored value is
update_value_unconditional(vb, signal_ref, bit, value) ==
    LET info == vb.info[signal_ref]
        vb1 == [vb EXCEPT !.bit_change = mark_bit_changed(@, info, bit),
                          !.data = set_value(@, info, bit, value)]
    IN  IF ~has_signal_changed(vb1, signal_ref)
        THEN mark_signal_changed(vb1, signal_ref)
        ELSE vb1

update_value(vb, signal_ref, bit, value) ==
    LET info == vb.info[signal_ref]
        is_a_real_change == get_value(vb, info, bit) # value
    IN  IF is_a_real_change
        THEN LET vb1 == [vb EXCEPT !.bit_change = mark_bit_changed(@, info, bit),
                                   !.data = set_value(@, info, bit, value)]
             IN  IF ~has_signal_changed(vb1, signal_ref)
                 THEN mark_signal_changed(vb1, signal_ref)
                 ELSE vb1
        ELSE vb

\* mutant: one changed bit is taken for a fully changed vector
full_signal_has_changed_any_bit(vb, signal_ref) ==
    \E e \in change_range(vb.info[signal_ref]) : vb.bit_change[e] # 0

full_signal_has_changed(vb, signal_ref) ==
    LET info == vb.info[signal_ref]
        range == change_range(info)
        start == info.bit_change_start
        len == div_ceil(info.bits, 8)
        skip == IF info.bits % 8 = 0 THEN 0 ELSE 1
    IN  /\ \A e \in (start + skip)..(start + len - 1) : vb.bit_change[e] = 255
        /\ (skip > 0 => vb.bit_change[start] = Shl8(1, info.bits % 8) - 1)

\* mutant: the bit_change bytes are not cleared
get_full_value_and_clear_changes_keeps_bits(vb, signal_ref) ==
    LET byte == signal_ref \div 8
        bit == signal_ref % 8
    IN  [vb EXCEPT !.signal_change[byte] = And8(@, Not8(Shl8(1, bit)))]

\* mutant: the signal's flag in signal_change is not cleared
get_full_value_and_clear_changes_keeps_flag(vb, signal_ref) ==
    LET info == vb.info[signal_ref]
    IN  [vb EXCEPT !.bit_change = [e \in DOMAIN @ |-> IF e \in change_range(info) THEN 0 ELSE @[e]]]

\* the buffer after the call; the returned slice is full_value(vb, signal_ref)
get_full_value_and_clear_changes(vb, signal_ref) ==
    LET info == vb.info[signal_ref]
        byte == signal_ref \div 8
        bit == signal_ref % 8
    IN  [vb EXCEPT !.bit_change = [e \in DOMAIN @ |-> IF e \in change_range(info) THEN 0 ELSE @[e]],
                   !.signal_change[byte] = And8(@, Not8(Shl8(1, bit)))]

\* &self.data[info.data_range()]
full_value(vb, signal_ref) ==
    LET info == vb.info[signal_ref]
    IN  Slice(vb.data, info.data_start, div_ceil(info.bits, States_bits_in_a_byte(info.states)))

\* one call of the encoder: raw_value_change(signal_ref, data, states); site names
\* the place of the call: "second" (the dispatch before a second change of a bit),
\* "full" (the dispatch of a fully changed vector) or "flush" (finish_time_step)
raw_value_change(signal_ref, data, states, site) ==
    [call |-> "raw_value_change",
     signal_ref |-> signal_ref, data |-> data, states |-> states, site |-> site]

RECURSIVE process_changed_signals_loop(_, _, _, _)
process_changed_signals_loop(vb, change_list, i, out) ==
    IF i > Len(change_list)
    THEN [vecs |-> vb, out |-> out]
    ELSE LET signal_ref == change_list[i]
         IN  IF has_signal_changed(vb, signal_ref)
             THEN LET states == vb.info[signal_ref].states
                      data == full_value(vb, signal_ref)
                  IN  process_changed_signals_loop(
                          get_full_value_and_clear_changes(vb, signal_ref),
                          change_list, i + 1,
                          Append(out, raw_value_change(signal_ref, data, states, "flush")))
             ELSE process_changed_signals_loop(vb, change_list, i + 1, out)

\* mutant: change_list is iterated without being taken
process_changed_signals_keeps_list(vb) ==
    process_changed_signals_loop(vb, vb.change_list, 1, <<>>)

\* the buffer after the call and the callback's calls, in order
process_changed_signals(vb) ==
    process_changed_signals_loop([vb EXCEPT !.change_list = <<>>], vb.change_list, 1, <<>>)

\* mutant: the timestep is closed without dispatching the pending changes
finish_time_step_does_nothing(vb) == [vecs |-> vb, out |-> <<>>]

finish_time_step(vb) == process_changed_signals(vb)

(***************************************************************************)
(* read_signal_value for NineStateBit and TwoStateBit signals: value is    *)
(* the byte read (after STD_LOGIC_LUT for nine-state signals).             *)
(***************************************************************************)
read_signal_value(vb, signal, value) ==
    LET signal_ref == signal.signal_ref
        bit == signal.tpe.bit
        states == IF signal.tpe.kind = "TwoStateBit" THEN "Two" ELSE "Nine"
        second == is_second_change(vb, signal_ref, bit, value)
        out1 == IF second
                THEN <<raw_value_change(signal_ref, full_value(vb, signal_ref), states, "second")>>
                ELSE <<>>
        vb1 == IF second THEN get_full_value_and_clear_changes(vb, signal_ref) ELSE vb
        vb2 == update_value(vb1, signal_ref, bit, value)
        full == full_signal_has_changed(vb2, signal_ref)
        out2 == IF full
                THEN <<raw_value_change(signal_ref, full_value(vb2, signal_ref), states, "full")>>
                ELSE <<>>
        vb3 == IF full THEN get_full_value_and_clear_changes(vb2, signal_ref) ELSE vb2
    IN  [vecs |-> vb3, out |-> out1 \o out2]

(***************************************************************************)
(* SpecVec: the change buffer driven by read_signal_value and              *)
(* finish_time_step, as read_snapshot_section and read_cycle_section drive *)
(* it. The declared signals are the bits of one or two vectors; a section  *)
(* may read any declared signal any number of times within a timestep      *)
(* (two GhwSignals may name the same bit of the same SignalRef).           *)
(***************************************************************************)
VecStates == {"Two", "Nine"}

BitKind(states) == IF states = "Two" THEN "TwoStateBit" ELSE "NineStateBit"

\* the GhwSignals of one vector: one per bit
VectorSignals(signal_ref, bits, states) ==
    [b \in 1..bits |->
        [signal_ref |-> signal_ref,
         tpe |-> [kind |-> BitKind(states), bit |-> b - 1, bits |-> bits]]]

\* one vector of every width and state encoding, and a pair of vectors
DecodeInfos ==
    { VectorSignals(0, w, s) : w \in 1..MaxBits, s \in VecStates }
    \cup { VectorSignals(0, 2, "Two") \o VectorSignals(1, 1, "Two") }

\* the number of SignalRefs of the hierarchy
SignalRefCount(signals) ==
    Cardinality({ signals[i].signal_ref : i \in 1..Len(signals) })

\* the values a signal's input byte can decode to
Values(tpe) == IF tpe.kind = "TwoStateBit" THEN 0..1 ELSE 0..MaxVal

\* the parts a specification does not use stay as they are here
LayoutUnused == lay_info = None /\ lay_slot = 0 /\ lay_seen = <<>>

CycleUnused ==
    /\ cyc_pc = "unused"
    /\ start_time = <<>>
    /\ cyc_calls = <<>>
    /\ cyc_iter = 0
    /\ overflow_checks = FALSE
    /\ cyc_updates = <<>>

FnUnused == fn_input = <<>> /\ fn_output = <<>> /\ fn_pc = "unused"

VcdUnused ==
    /\ body = <<>>
    /\ multi_thread = FALSE
    /\ max_threads = 0
    /\ vcd_pc = "unused"
    /\ workers = <<>>
    /\ vcd_result = <<>>

VecGhostUnused == enc = <<>> /\ step_writes = <<>> /\ step_start = <<>> /\ phase = "unused"

VecUnused == decode_info = <<>> /\ vecs = None /\ VecGhostUnused

InitVec ==
    /\ FnUnused
    /\ LayoutUnused
    /\ CycleUnused
    /\ VcdUnused
    /\ decode_info \in DecodeInfos
    /\ vecs = from_decode_info(decode_info, SignalRefCount(decode_info))
    /\ enc = <<>>
    /\ step_writes = <<>>
    /\ step_start = vecs.data
    /\ phase = "open"

\* read_signal_value(sig, vecs, enc, input) of a snapshot or a cycle
ReadSignalValue ==
    /\ phase = "open"
    /\ Len(step_writes) < MaxWrites
    /\ \E i \in 1..Len(decode_info) : \E value \in Values(decode_info[i].tpe) :
          LET signal == decode_info[i]
              r == read_signal_value(vecs, signal, value)
          IN  /\ vecs' = r.vecs
              /\ enc' = enc \o r.out
              /\ step_writes' = Append(step_writes,
                     [signal_ref |-> signal.signal_ref, bit |-> signal.tpe.bit, value |-> value,
                      marked |-> has_bit_changed(vecs, vecs.info[signal.signal_ref], signal.tpe.bit),
                      old |-> get_value(vecs, vecs.info[signal.signal_ref], signal.tpe.bit),
                      before |-> full_value(vecs, signal.signal_ref),
                      enc_at |-> Len(enc)])
    /\ UNCHANGED <<decode_info, step_start, phase, layVars, cycVars, vcdVars, fnVars>>

\* finish_time_step(vecs, enc) at the end of the timestep
FinishTimeStep ==
    /\ phase = "open"
    /\ LET r == finish_time_step(vecs)
       IN  /\ vecs' = r.vecs
           /\ enc' = enc \o r.out
    /\ phase' = "flushed"
    /\ UNCHANGED <<decode_info, step_writes, step_start, layVars, cycVars, vcdVars, fnVars>>

\* enc.time_change(start_time) of the next timestep
TimeChange ==
    /\ phase = "flushed"
    /\ phase' = "open"
    /\ enc' = <<>>
    /\ step_writes' = <<>>
    /\ step_start' = vecs.data
    /\ UNCHANGED <<decode_info, vecs, layVars, cycVars, vcdVars, fnVars>>

NextVec == ReadSignalValue \/ FinishTimeStep \/ TimeChange

SpecVec == InitVec /\ [][NextVec]_vars

(***************************************************************************)
(* SpecLayout: the slots of a vector's data bytes are visited from the     *)
(* first byte to the last and, inside a byte, from the highest shift to    *)
(* the lowest; the bit that set_value stores in each slot is recorded.     *)
(***************************************************************************)
LayoutInfos ==
    { [data_start |-> 0, bit_change_start |-> 0, bits |-> w, states |-> s] :
        w \in 1..MaxWidth, s \in VecStates }

ZeroData(info) == [i \in data_range(info) |-> 0]

\* the bits that set_value stores in the slot (index, shift) of the signal's data
BitsStoredAt(info, index, shift) ==
    { b \in 0..(info.bits - 1) :
        LET data == set_value(ZeroData(info), info, b, 1)
        IN  And8(Shr8(data[info.data_start + index], shift), States_mask(info.states)) = 1 }

\* the slots of the signal's data bytes
NumSlots(info) == Cardinality(data_range(info)) * States_bits_in_a_byte(info.states)

InitLayout ==
    /\ FnUnused
    /\ VecUnused
    /\ CycleUnused
    /\ VcdUnused
    /\ lay_info \in LayoutInfos
    /\ lay_slot = 0
    /\ lay_seen = <<>>

LayoutVisit ==
    /\ lay_info # None
    /\ lay_slot < NumSlots(lay_info)
    /\ LET in_a_byte == States_bits_in_a_byte(lay_info.states)
           index == lay_slot \div in_a_byte
           shift == (in_a_byte - 1 - (lay_slot % in_a_byte)) * States_bits(lay_info.states)
           found == BitsStoredAt(lay_info, index, shift)
       IN  lay_seen' = IF found = {}
                       THEN lay_seen
                       ELSE Append(lay_seen, CHOOSE b \in found : \A c \in found : b >= c)
    /\ lay_slot' = lay_slot + 1
    /\ UNCHANGED <<lay_info, vbVars, cycVars, vcdVars, fnVars>>

NextLayout == LayoutVisit

SpecLayout == InitLayout /\ [][NextLayout]_vars

(***************************************************************************)
(* u64 arithmetic: a u64 is four 16-bit limbs, the most significant first. *)
(***************************************************************************)
Limb == 2 ^ 16

u64_add(a, b) ==
    LET s4 == a[4] + b[4]
        s3 == a[3] + b[3] + (s4 \div Limb)
        s2 == a[2] + b[2] + (s3 \div Limb)
        s1 == a[1] + b[1] + (s2 \div Limb)
    IN  [value |-> <<s1 % Limb, s2 % Limb, s3 % Limb, s4 % Limb>>,
         overflow |-> s1 >= Limb]

u64_lt(a, b) ==
    \E i \in 1..4 : a[i] < b[i] /\ \A j \in 1..(i - 1) : a[j] = b[j]

u64_le(a, b) == a = b \/ u64_lt(a, b)

\* 0, i64::MAX and u64::MAX (the i64 -1 read by header.read_i64, as u64)
U64_ZERO == <<0, 0, 0, 0>>
U64_ONE == <<0, 0, 0, 1>>
I64_MAX == <<Limb \div 2 - 1, Limb - 1, Limb - 1, Limb - 1>>
U64_MAX == <<Limb - 1, Limb - 1, Limb - 1, Limb - 1>>

(***************************************************************************)
(* read_cycle_signals: the updates of one cycle. The input is the list of  *)
(* (delta, value) read, which ends with the delta 0.                       *)
(***************************************************************************)
RECURSIVE read_cycle_signals_loop(_, _, _, _, _, _)
read_cycle_signals_loop(signals, vb, updates, i, pos_signal_index, out) ==
    LET delta == updates[i].delta
    IN  IF delta = 0
        THEN [result |-> "ok", vecs |-> vb, out |-> out]
        ELSE LET pos == pos_signal_index + delta
             IN  IF pos = 0
                 THEN [result |-> "FailedToParseSection", vecs |-> vb, out |-> out]
                 ELSE LET r == read_signal_value(vb, signals[pos], updates[i].value)
                      IN  read_cycle_signals_loop(signals, r.vecs, updates, i + 1, pos,
                                                  out \o r.out)

read_cycle_signals(signals, vb, updates) ==
    read_cycle_signals_loop(signals, vb, updates, 1, 0, <<>>)

(***************************************************************************)
(* SpecCycle: read_cycle_section over a 2-bit two-state vector.            *)
(***************************************************************************)
CycleSignals == VectorSignals(0, 2, "Two")

EndOfUpdates == [delta |-> 0, value |-> 0]

\* the update lists of one cycle: deltas > 0 that stay inside the declared signals
CycleUpdates ==
    LET n == Len(CycleSignals)
    IN  { <<EndOfUpdates>> }
        \cup { <<[delta |-> d, value |-> v], EndOfUpdates>> : d \in 1..n, v \in 0..1 }
        \cup { <<[delta |-> 1, value |-> v], [delta |-> 1, value |-> w], EndOfUpdates>> :
                 v \in 0..1, w \in 0..1 }

\* the start times header.read_i64 gives, as u64
StartTimes == {U64_ZERO, I64_MAX, U64_MAX}

\* the time deltas leb128::read::signed gives: negative, or a value as u64
Negative == [negative |-> TRUE]

TimeDeltas == {Negative, U64_ZERO, U64_ONE, I64_MAX}

time_change(time) == [call |-> "time_change", time |-> time]

InitCycle ==
    /\ FnUnused
    /\ LayoutUnused
    /\ VcdUnused
    /\ VecGhostUnused
    /\ decode_info = CycleSignals
    /\ vecs = from_decode_info(decode_info, SignalRefCount(decode_info))
    /\ cyc_pc = "time_change"
    /\ start_time \in StartTimes
    /\ cyc_calls = <<>>
    /\ cyc_iter = 0
    /\ cyc_updates = <<>>
    /\ overflow_checks \in BOOLEAN

\* enc.time_change(start_time)
CycleTimeChange ==
    /\ cyc_pc = "time_change"
    /\ cyc_calls' = Append(cyc_calls, time_change(start_time))
    /\ cyc_iter' = cyc_iter + 1
    /\ cyc_pc' = "signals"
    /\ UNCHANGED <<start_time, overflow_checks, cyc_updates, vbVars, layVars, vcdVars, fnVars>>

\* read_cycle_signals(info, vecs, enc, input)?; finish_time_step(vecs, enc)
CycleReadSignals ==
    /\ cyc_pc = "signals"
    /\ \E updates \in CycleUpdates :
          LET r == read_cycle_signals(decode_info, vecs, updates)
              f == finish_time_step(r.vecs)
          IN  /\ cyc_updates' = updates
              /\ IF r.result = "ok"
                 THEN /\ vecs' = f.vecs
                      /\ cyc_calls' = cyc_calls \o r.out \o f.out
                      /\ cyc_pc' = "delta"
                 ELSE /\ vecs' = r.vecs
                      /\ cyc_calls' = cyc_calls \o r.out
                      /\ cyc_pc' = "error"
    /\ UNCHANGED <<start_time, cyc_iter, overflow_checks, layVars, vcdVars, fnVars,
                   decode_info, enc, step_writes, step_start, phase>>

\* let time_delta = leb128::read::signed(input)?; break or start_time += time_delta
CycleReadDelta ==
    /\ cyc_pc = "delta"
    /\ \E time_delta \in TimeDeltas :
          /\ cyc_iter >= MaxCycles => time_delta = Negative
          /\ IF time_delta = Negative
             THEN cyc_pc' = "end" /\ UNCHANGED start_time
             ELSE LET sum == u64_add(start_time, time_delta)
                  IN  IF sum.overflow /\ overflow_checks
                      THEN cyc_pc' = "panic" /\ UNCHANGED start_time
                      ELSE cyc_pc' = "time_change" /\ start_time' = sum.value
    /\ UNCHANGED <<cyc_calls, cyc_iter, overflow_checks, cyc_updates, vbVars, layVars, vcdVars, fnVars>>

\* check_magic_end(input, "cycle", GHW_END_CYCLE_SECTION)?
CycleCheckEnd ==
    /\ cyc_pc = "end"
    /\ \E matches \in BOOLEAN : cyc_pc' = IF matches THEN "done" ELSE "error"
    /\ UNCHANGED <<start_time, cyc_calls, cyc_iter, overflow_checks, cyc_updates, vbVars, layVars, vcdVars, fnVars>>

NextCycle == CycleTimeChange \/ CycleReadSignals \/ CycleReadDelta \/ CycleCheckEnd

SpecCycle == InitCycle /\ [][NextCycle]_vars

(***************************************************************************)
(* The VCD body: a byte slice. Bytes are their ASCII codes. The slice is   *)
(* kept as a sequence of runs [byte, count], so that the long stretches of *)
(* equal bytes that make a body exceed MIN_CHUNK_SIZE stay small; indices  *)
(* are the 0-based byte indices of the slice.                              *)
(***************************************************************************)
MIN_CHUNK_SIZE == 8192

RECURSIVE SliceLen(_)
SliceLen(runs) ==
    IF runs = <<>> THEN 0 ELSE runs[1].count + SliceLen(Tail(runs))

\* the index of the first byte of run k
RunStart(runs, k) == SliceLen(SubSeq(runs, 1, k - 1))

\* input[i]: the byte of the run that holds index i, found run by run
RECURSIVE ByteAtFrom(_, _, _)
ByteAtFrom(runs, k, i) ==
    IF i < runs[k].count THEN runs[k].byte
    ELSE ByteAtFrom(runs, k + 1, i - runs[k].count)

ByteAt(runs, i) == ByteAtFrom(runs, 1, i)

\* the runs of a byte string
RunsOf(bytes) == [i \in 1..Len(bytes) |-> [byte |-> bytes[i], count |-> 1]]

\* b' ' | b'\n' | b'\r' | b'\t'
IsWhitespace(b) == b \in {32, 10, 13, 9}

SetMin(S) == CHOOSE x \in S : \A y \in S : x <= y

\* the first index in from..(to - 1) whose byte is in the set wanted, or to;
\* run k starts at index start
RECURSIVE FirstByteInFrom(_, _, _, _, _, _)
FirstByteInFrom(runs, k, start, from, to, wanted) ==
    IF k > Len(runs) \/ start >= to THEN to
    ELSE IF runs[k].byte \in wanted /\ runs[k].count > 0 /\ start + runs[k].count > from
    THEN (IF start > from THEN start ELSE from)
    ELSE FirstByteInFrom(runs, k + 1, start + runs[k].count, from, to, wanted)

FirstByteIn(runs, from, to, wanted) == FirstByteInFrom(runs, 1, 0, from, to, wanted)

\* the bytes a body may hold, as a set; whitespace and its complement
Bytes == 0..255
Whitespace == { b \in Bytes : IsWhitespace(b) }
NonWhitespace == Bytes \ Whitespace

\* &input[from..to] as a byte string
Token(runs, from, to) == [i \in 1..(to - from) |-> ByteAt(runs, from + i - 1)]

\* b"0", b"$dumpall", b"$comment", b"$dumpvars", b"$end", b"$dumpoff"
ASCII_ZERO == <<48>>
DUMPALL == <<36, 100, 117, 109, 112, 97, 108, 108>>
COMMENT == <<36, 99, 111, 109, 109, 101, 110, 116>>
DUMPVARS == <<36, 100, 117, 109, 112, 118, 97, 114, 115>>
\* mutant: b"$END"
END_uppercase == <<36, 69, 78, 68>>

END == <<36, 101, 110, 100>>
DUMPOFF == <<36, 100, 117, 109, 112, 111, 102, 102>>

\* the same without b'-'
BitValueChars_without_dash == {48, 49, 122, 90, 120, 88, 104, 72, 117, 85, 119, 87, 108, 76}

\* b'0' | b'1' | b'z' | b'Z' | b'x' | b'X' | b'h' | b'H' | b'u' | b'U' | b'w' | b'W' | b'l' | b'L' | b'-'
BitValueChars == {48, 49, 122, 90, 120, 88, 104, 72, 117, 85, 119, 87, 108, 76, 45}

\* b'b' | b'B' | b'r' | b'R' | b's' | b'S'
VectorValueChars == {98, 66, 114, 82, 115, 83}

BodyCmd_Time(value) == [cmd |-> "Time", value |-> value]
BodyCmd_Value(value, id) == [cmd |-> "Value", value |-> value, id |-> id]

(***************************************************************************)
(* BodyReader::try_finish_token. token_start and prev_token are None or    *)
(* Some; a token is the pair of its bounds in the reader's input. The      *)
(* result holds the returned command (or None), the three &mut arguments   *)
(* and whether the call panics.                                            *)
(***************************************************************************)
Some(x) == [some |-> x]

try_finish_token(input, pos, token_start, prev_token, search_for_end) ==
    LET unchanged == [ret |-> None, token_start |-> token_start,
                      prev_token |-> prev_token,
                      search_for_end |-> search_for_end, panic |-> FALSE]
    IN  IF token_start = None THEN unchanged
        ELSE
        LET start == token_start.some
            token == Token(input, start, pos)
        IN  IF pos = start THEN unchanged
            ELSE IF search_for_end
            THEN [unchanged EXCEPT !.search_for_end = (token # END),
                                   !.token_start = None]
            ELSE IF prev_token = None
            THEN IF Len(token) = 1 THEN unchanged   \* too short
                 ELSE IF token[1] = 35              \* b'#'
                 THEN [unchanged EXCEPT !.ret = Some(BodyCmd_Time(Tail(token))),
                                        !.token_start = None]
                 ELSE IF token[1] \in BitValueChars
                 THEN [unchanged EXCEPT
                          !.ret = Some(BodyCmd_Value(<<token[1]>>, Tail(token))),
                          !.token_start = None]
                 ELSE IF token = DUMPALL
                 THEN [unchanged EXCEPT !.ret = Some(BodyCmd_Time(ASCII_ZERO))]
                 ELSE IF token = COMMENT
                 THEN [unchanged EXCEPT !.search_for_end = TRUE,
                                        !.token_start = None]
                 ELSE IF token # DUMPVARS /\ token # END /\ token # DUMPOFF
                 THEN [unchanged EXCEPT !.prev_token = Some(token),
                                        !.token_start = None]
                 ELSE [unchanged EXCEPT !.token_start = None]
            ELSE LET first == prev_token.some
                 IN  IF first[1] \in VectorValueChars
                     THEN [unchanged EXCEPT !.ret = Some(BodyCmd_Value(first, token)),
                                            !.prev_token = None,
                                            !.token_start = None]
                     ELSE [unchanged EXCEPT !.panic = TRUE]

(***************************************************************************)
(* BodyReader::next. The loop over the bytes of input[self.pos..] only     *)
(* acts on a non-whitespace byte while no token is open and on a           *)
(* whitespace byte while one is: next_loop goes from one such byte to the  *)
(* next one. The result holds the returned item, None or Some of           *)
(* <<start_pos, cmd>>, the new self.pos, and whether the call panics.      *)
(***************************************************************************)
RECURSIVE next_loop(_, _, _, _, _, _)
next_loop(input, pos, token_start, prev_token, start_pos, search_for_end) ==
    LET len == SliceLen(input)
    IN  IF token_start = None
        THEN LET p == FirstByteIn(input, pos, len, NonWhitespace)
             IN  IF p = len
                 THEN [item |-> None, pos |-> len, panic |-> FALSE]
                 ELSE next_loop(input, p + 1, Some(p), prev_token,
                                IF prev_token = None THEN p ELSE start_pos,
                                search_for_end)
        ELSE LET p == FirstByteIn(input, pos, len, Whitespace)
                 r == try_finish_token(input, p, token_start, prev_token,
                                       search_for_end)
             IN  IF r.panic
                 THEN [item |-> None, pos |-> p, panic |-> TRUE]
                 ELSE IF r.ret # None
                 THEN [item |-> Some(<<start_pos, r.ret.some>>), pos |-> p,
                       panic |-> FALSE]
                 ELSE IF p = len
                 THEN [item |-> None, pos |-> len, panic |-> FALSE]
                 ELSE next_loop(input, p + 1, r.token_start, r.prev_token,
                                start_pos, r.search_for_end)

\* the same without `self.pos = self.input.len()` after the loop
next_keeps_final_pos(input, pos) ==
    IF pos >= SliceLen(input)
    THEN [item |-> None, pos |-> pos, panic |-> FALSE]
    ELSE LET r == next_loop(input, pos, None, None, 0, FALSE)
         IN  IF r.pos = SliceLen(input) THEN [r EXCEPT !.pos = pos] ELSE r

next(input, pos) ==
    IF pos >= SliceLen(input)
    THEN [item |-> None, pos |-> pos, panic |-> FALSE]
    ELSE next_loop(input, pos, None, None, 0, FALSE)

\* &input[n..]
RECURSIVE DropBytes(_, _)
DropBytes(runs, n) ==
    IF n = 0 \/ runs = <<>> THEN runs
    ELSE IF runs[1].count <= n THEN DropBytes(Tail(runs), n - runs[1].count)
    ELSE <<[runs[1] EXCEPT !.count = @ - n]>> \o Tail(runs)

(***************************************************************************)
(* u64 arithmetic of id_to_int and of the parsing of a time stamp.         *)
(***************************************************************************)
\* a * k for a small k, as checked_mul sees it
u64_mul_small(a, k) ==
    LET p4 == a[4] * k
        p3 == a[3] * k + (p4 \div Limb)
        p2 == a[2] * k + (p3 \div Limb)
        p1 == a[1] * k + (p2 \div Limb)
    IN  [value |-> <<p1 % Limb, p2 % Limb, p3 % Limb, p4 % Limb>>,
         overflow |-> p1 >= Limb]

u64_of(n) == <<0, 0, n \div Limb, n % Limb>>

\* a - 1 for a >= 1
u64_sub_one(a) ==
    LET k == CHOOSE i \in 1..4 : a[i] > 0 /\ \A j \in (i + 1)..4 : a[j] = 0
    IN  [i \in 1..4 |-> IF i < k THEN a[i] ELSE IF i = k THEN a[i] - 1 ELSE Limb - 1]

\* result.checked_mul(k).and_then(|x| x.checked_add(c))
checked_mul_add(result, k, c) ==
    LET m == u64_mul_small(result, k)
        s == u64_add(m.value, u64_of(c))
    IN  IF m.overflow \/ s.overflow THEN None ELSE Some(s.value)

\* ID_CHAR_MIN = b'!', ID_CHAR_MAX = b'~'
ID_CHAR_MIN == 33
ID_CHAR_MAX == 126
\* the same without the + 1
NUM_ID_CHARS_one_less == ID_CHAR_MAX - ID_CHAR_MIN

NUM_ID_CHARS == ID_CHAR_MAX - ID_CHAR_MIN + 1

\* the same over id.iter() instead of id.iter().rev()
RECURSIVE id_to_int_loop_not_reversed(_, _, _)
id_to_int_loop_not_reversed(id, k, result) ==
    IF k = 0 THEN Some(u64_sub_one(result))
    ELSE LET i == id[Len(id) - k + 1]
         IN  IF ~(i \in ID_CHAR_MIN..ID_CHAR_MAX) THEN None
             ELSE LET c == (i - ID_CHAR_MIN) + 1
                      r == checked_mul_add(result, NUM_ID_CHARS, c)
                  IN  IF r = None THEN None
                      ELSE id_to_int_loop_not_reversed(id, k - 1, r.some)

\* mutant: the bytes are the digits 0..93 of a plain base-94 number
RECURSIVE id_to_int_loop_digits_from_zero(_, _, _)
id_to_int_loop_digits_from_zero(id, k, result) ==
    IF k = 0 THEN Some(result)
    ELSE IF ~(id[k] \in ID_CHAR_MIN..ID_CHAR_MAX) THEN None
    ELSE LET c == id[k] - ID_CHAR_MIN
             r == checked_mul_add(result, NUM_ID_CHARS, c)
         IN  IF r = None THEN None ELSE id_to_int_loop_digits_from_zero(id, k - 1, r.some)

RECURSIVE id_to_int_loop(_, _, _)
id_to_int_loop(id, k, result) ==
    IF k = 0 THEN Some(u64_sub_one(result))
    ELSE IF ~(id[k] \in ID_CHAR_MIN..ID_CHAR_MAX) THEN None
    ELSE LET c == (id[k] - ID_CHAR_MIN) + 1
             r == checked_mul_add(result, NUM_ID_CHARS, c)
         IN  IF r = None THEN None ELSE id_to_int_loop(id, k - 1, r.some)

id_to_int(id) ==
    IF id = <<>> THEN None ELSE id_to_int_loop(id, Len(id), U64_ZERO)

\* std::str::from_utf8(value).unwrap().parse::<u64>(): None when it is Err
RECURSIVE parse_u64_loop(_, _, _)
parse_u64_loop(digits, k, result) ==
    IF k > Len(digits) THEN Some(result)
    ELSE IF ~(digits[k] \in 48..57) THEN None
    ELSE LET r == checked_mul_add(result, 10, digits[k] - 48)
         IN  IF r = None THEN None ELSE parse_u64_loop(digits, k + 1, r.some)

parse_u64(value) ==
    LET digits == IF value # <<>> /\ value[1] = 43 THEN Tail(value) ELSE value
    IN  IF digits = <<>> THEN None ELSE parse_u64_loop(digits, 1, U64_ZERO)

(***************************************************************************)
(* The calls that read_single_stream_of_values makes on its encoder.       *)
(***************************************************************************)
vcd_time_change(time) == [call |-> "time_change", time |-> time]

vcd_value_change(id, value) ==
    [call |-> "vcd_value_change", id |-> id, value |-> value]

(***************************************************************************)
(* read_single_stream_of_values, with lookup = None. A call is a record:   *)
(* its arguments, input2 and offset, the reader's pos, the flag            *)
(* found_first_time_step, its encoder and its status ("running", "done"    *)
(* or "panic"). stop_pos is a usize: wrapped says that it is usize::MAX.   *)
(***************************************************************************)
advance_to_first_newline(input) ==
    LET len == SliceLen(input)
        pos == FirstByteIn(input, 0, len, {10})
    IN  IF pos < len THEN <<DropBytes(input, pos), pos>> ELSE <<<<>>, 0>>

read_single_stream_of_values_init(input, stop_pos, wrapped, is_first, starts_on_new_line) ==
    LET io == IF starts_on_new_line THEN <<input, 0>>
              ELSE advance_to_first_newline(input)
    IN  [input2 |-> io[1], offset |-> io[2], stop_pos |-> stop_pos,
         wrapped |-> wrapped, is_first |-> is_first, pos |-> 0,
         found_first_time_step |-> FALSE, encoder |-> <<>>,
         status |-> "running"]

\* one iteration of the loop
read_single_stream_of_values_step(w) ==
    LET r == next(w.input2, w.pos)
    IN  IF r.panic THEN [w EXCEPT !.status = "panic", !.pos = r.pos]
        ELSE IF r.item = None THEN [w EXCEPT !.status = "done", !.pos = r.pos]
        ELSE
        LET pos == r.item.some[1]
            cmd == r.item.some[2]
            w1  == [w EXCEPT !.pos = r.pos]
        IN  IF ~w.wrapped /\ (pos + w.offset) > w.stop_pos /\ cmd.cmd = "Time"
            THEN [w1 EXCEPT !.status = "done"]
            ELSE IF cmd.cmd = "Time"
            THEN LET int_value == parse_u64(cmd.value)
                 IN  IF int_value = None
                     THEN [w1 EXCEPT !.status = "panic",
                                     !.found_first_time_step = TRUE]
                     ELSE [w1 EXCEPT !.found_first_time_step = TRUE,
                                     !.encoder = Append(@, vcd_time_change(int_value.some))]
            ELSE LET implicit == w.is_first /\ ~w.found_first_time_step
                     enc1 == IF implicit
                             THEN Append(w.encoder, vcd_time_change(U64_ZERO))
                             ELSE w.encoder
                     found == w.found_first_time_step \/ implicit
                     num_id == id_to_int(cmd.id)
                 IN  IF ~found THEN w1
                     ELSE IF num_id = None
                     THEN [w1 EXCEPT !.status = "panic", !.encoder = enc1,
                                     !.found_first_time_step = TRUE]
                     ELSE [w1 EXCEPT !.found_first_time_step = TRUE,
                                     !.encoder = Append(enc1,
                                         vcd_value_change(num_id.some, cmd.value))]

\* the whole call
RECURSIVE read_single_stream_of_values_loop(_)
read_single_stream_of_values_loop(w) ==
    IF w.status # "running" THEN w
    ELSE read_single_stream_of_values_loop(read_single_stream_of_values_step(w))

(***************************************************************************)
(* determine_thread_chunks: None when usize_div_ceil(body_len, 0) panics.  *)
(***************************************************************************)
usize_div_ceil(a, b) == (a + b - 1) \div b

Min(a, b) == IF a < b THEN a ELSE b

determine_thread_chunks(body_len, threads) ==
    LET number_of_threads_for_min_chunk_size == usize_div_ceil(body_len, MIN_CHUNK_SIZE)
        num_threads == Min(threads, number_of_threads_for_min_chunk_size)
    IN  IF num_threads = 0 THEN None
        ELSE LET chunk_size == usize_div_ceil(body_len, num_threads)
             IN  Some([ii \in 1..num_threads |-> <<(ii - 1) * chunk_size, chunk_size>>])

\* the same with stop_pos = len
chunk_worker_stops_one_later(input, chunk) ==
    LET start == chunk[1]
        len == chunk[2]
        is_first == start = 0
        starts_on_new_line == IF is_first THEN TRUE
                              ELSE ByteAt(input, start - 1) = 10
    IN  read_single_stream_of_values_init(DropBytes(input, start), len, FALSE,
                                          is_first, starts_on_new_line)

\* the same with is_first = true for every chunk
chunk_worker_all_first(input, chunk) ==
    LET start == chunk[1]
        len == chunk[2]
        starts_on_new_line == IF start = 0 THEN TRUE
                              ELSE ByteAt(input, start - 1) = 10
    IN  read_single_stream_of_values_init(DropBytes(input, start), len - 1, FALSE,
                                          TRUE, starts_on_new_line)

\* the closure that read_values maps over the chunks, up to the loop
chunk_worker(input, chunk) ==
    LET start == chunk[1]
        len == chunk[2]
        is_first == start = 0
        starts_on_new_line == IF is_first THEN TRUE
                              ELSE ByteAt(input, start - 1) = 10
    IN  read_single_stream_of_values_init(DropBytes(input, start), len - 1, FALSE,
                                          is_first, starts_on_new_line)

\* the same, the encoders in the reverse order
RECURSIVE combine_encoders_reversed(_, _)
combine_encoders_reversed(ws, k) ==
    IF k > Len(ws) THEN <<>> ELSE combine_encoders_reversed(ws, k + 1) \o ws[k].encoder

\* encoder.append(other) for every other encoder, in the order of the chunks
RECURSIVE combine_encoders(_, _)
combine_encoders(ws, k) ==
    IF k > Len(ws) THEN <<>> ELSE ws[k].encoder \o combine_encoders(ws, k + 1)

(***************************************************************************)
(* SpecVcd: read_values over a body. A body is a short byte string, or a   *)
(* short byte string that starts one byte before a multiple of             *)
(* MIN_CHUNK_SIZE, between newlines, with or without a time step at the    *)
(* start of the body. The calls of read_single_stream_of_values run their  *)
(* loop iterations in any order.                                           *)
(***************************************************************************)
\* b'\n', b' ', b'!', b'#', b'1'
Alphabet == {10, 32, 33, 35, 49}

Newlines(n) == [byte |-> 10, count |-> n]

ShortBodies == UNION { { RunsOf(s) : s \in [1..n -> Alphabet] } : n \in 0..MaxBody }

\* nothing, or b"#11"
BodyHeads == { <<>>, <<35, 49, 49>> }

LongBodies ==
    { RunsOf(h) \o <<Newlines(MIN_CHUNK_SIZE - 1 - Len(h))>> \o RunsOf(s)
        \o <<Newlines(MIN_CHUNK_SIZE * (c - 1) + 1 - MaxBody)>> :
        h \in BodyHeads, s \in [1..MaxBody -> Alphabet], c \in 2..MaxThreads }

InitVcd ==
    /\ FnUnused
    /\ LayoutUnused
    /\ VecUnused
    /\ cyc_pc = "unused"
    /\ start_time = U64_ZERO
    /\ cyc_calls = <<>>
    /\ cyc_iter = 0
    /\ cyc_updates = <<>>
    /\ overflow_checks \in BOOLEAN
    /\ body \in ShortBodies \cup LongBodies
    /\ multi_thread \in BOOLEAN
    \* rayon::current_num_threads() is only read when multi_thread is set
    /\ max_threads \in (IF multi_thread THEN 1..MaxThreads ELSE {1})
    /\ vcd_pc = "start"
    /\ workers = <<>>
    /\ vcd_result = <<>>

\* read_values up to the calls of read_single_stream_of_values
ReadValuesStart ==
    /\ vcd_pc = "start"
    /\ IF multi_thread
       THEN LET chunks == determine_thread_chunks(SliceLen(body), max_threads)
            IN  IF chunks = None
                THEN vcd_pc' = "panic" /\ UNCHANGED workers
                ELSE /\ vcd_pc' = "workers"
                     /\ workers' = [k \in 1..Len(chunks.some) |->
                                       chunk_worker(body, chunks.some[k])]
       ELSE IF SliceLen(body) = 0 /\ overflow_checks
            THEN vcd_pc' = "panic" /\ UNCHANGED workers
            ELSE /\ vcd_pc' = "workers"
                 /\ workers' = <<read_single_stream_of_values_init(
                                   body, SliceLen(body) - 1, SliceLen(body) = 0,
                                   TRUE, TRUE)>>
    /\ UNCHANGED <<body, multi_thread, max_threads, vcd_result,
                   vbVars, layVars, cycVars, fnVars>>

\* one loop iteration of one call of read_single_stream_of_values
ReadSingleStreamStep ==
    /\ vcd_pc = "workers"
    /\ \E k \in 1..Len(workers) :
         /\ workers[k].status = "running"
         /\ workers' = [workers EXCEPT ![k] = read_single_stream_of_values_step(@)]
    /\ UNCHANGED <<body, multi_thread, max_threads, vcd_pc, vcd_result,
                   vbVars, layVars, cycVars, fnVars>>

\* read_values after the calls: the encoders are combined and finished
ReadValuesFinish ==
    /\ vcd_pc = "workers"
    /\ \A k \in 1..Len(workers) : workers[k].status # "running"
    /\ IF \E k \in 1..Len(workers) : workers[k].status = "panic"
       THEN vcd_pc' = "panic" /\ UNCHANGED vcd_result
       ELSE vcd_pc' = "done" /\ vcd_result' = combine_encoders(workers, 1)
    /\ UNCHANGED <<body, multi_thread, max_threads, workers,
                   vbVars, layVars, cycVars, fnVars>>

NextVcd == ReadValuesStart \/ ReadSingleStreamStep \/ ReadValuesFinish

SpecVcd == InitVcd /\ [][NextVcd]_vars

(***************************************************************************)
(* SpecBodyReader: a BodyReader over a body of lines, driven as an         *)
(* iterator (for (_, cmd) in reader). A line is a time stamp #<digits>, a  *)
(* scalar change <v><id> or a two-token change <value> <id>; the body is   *)
(* the lines, joined by a line end, with or without a line end before the  *)
(* first and after the last line.                                          *)
(***************************************************************************)
TimeLine(digits) == [kind |-> "Time", value |-> digits, gap |-> <<>>, id |-> <<>>]

ScalarLine(v, id) == [kind |-> "Scalar", value |-> <<v>>, gap |-> <<>>, id |-> id]

VectorLine(value, gap, id) == [kind |-> "Vector", value |-> value, gap |-> gap, id |-> id]

\* the bytes of a line
LineBytes(line) ==
    IF line.kind = "Time" THEN <<35>> \o line.value
    ELSE line.value \o line.gap \o line.id

\* the values of a scalar change: 0 1 z Z x X h H u U w W l L -
ScalarValues == {48, 49, 122, 90, 120, 88, 104, 72, 117, 85, 119, 87, 108, 76, 45}

\* the first byte of a two-token change: b B r R s S
VectorPrefixes == {98, 66, 114, 82, 115, 83}

\* the lines that are read on their own: #0, #12; every scalar value with the
\* ids ! and #2; every vector prefix before 0 or 1.5, then the id ! or 1
Lines ==
    { TimeLine(d) : d \in {<<48>>, <<49, 50>>} }
    \cup { ScalarLine(v, id) : v \in ScalarValues, id \in {<<33>>, <<35, 50>>} }
    \cup { VectorLine(<<p>> \o rest, <<32>>, id) :
             p \in VectorPrefixes, rest \in {<<48>>, <<49, 46, 53>>},
             id \in {<<33>>, <<49>>} }

\* the lines that bodies of several lines are made of:
\* #0, #12, 1!, x#2, b0 !, r1.5 \t1
CoreLines ==
    { TimeLine(<<48>>), TimeLine(<<49, 50>>),
      ScalarLine(49, <<33>>), ScalarLine(120, <<35, 50>>),
      VectorLine(<<98, 48>>, <<32>>, <<33>>),
      VectorLine(<<114, 49, 46, 53>>, <<32, 9>>, <<49>>) }

RECURSIVE JoinLines(_, _)
JoinLines(lines, sep) ==
    IF lines = <<>> THEN <<>>
    ELSE IF Len(lines) = 1 THEN LineBytes(lines[1])
    ELSE LineBytes(lines[1]) \o sep \o JoinLines(Tail(lines), sep)

\* a body: its lines and its bytes
LineBody(lines, lead, sep, tail) ==
    [lines |-> lines, bytes |-> lead \o JoinLines(lines, sep) \o tail]

LineBodies ==
    { LineBody(<<l>>, lead, <<10>>, tail) :
        l \in Lines, lead \in {<<>>, <<10>>}, tail \in {<<>>, <<10>>} }
    \cup UNION { { LineBody(ls, lead, sep, tail) :
                     ls \in [1..n -> CoreLines], lead \in {<<>>, <<10>>},
                     sep \in {<<10>>, <<13, 10>>}, tail \in {<<>>, <<10>>} } :
                 n \in 2..MaxLines }

OthersUnused ==
    /\ LayoutUnused
    /\ VecUnused
    /\ CycleUnused
    /\ VcdUnused

InitBodyReader ==
    /\ OthersUnused
    /\ fn_input \in LineBodies
    \* BodyReader::new
    /\ fn_output = [pos |-> 0, cmds |-> <<>>]
    /\ fn_pc = "running"

\* reader.next() and the body of the for loop
BodyReaderNext ==
    /\ fn_pc = "running"
    /\ LET r == next(RunsOf(fn_input.bytes), fn_output.pos)
       IN  IF r.panic
           THEN fn_pc' = "panic" /\ UNCHANGED fn_output
           ELSE IF r.item = None
           THEN fn_pc' = "return" /\ fn_output' = [fn_output EXCEPT !.pos = r.pos]
           ELSE /\ fn_pc' = "running"
                /\ fn_output' = [pos |-> r.pos,
                                 cmds |-> Append(fn_output.cmds, r.item.some[2])]
    /\ UNCHANGED <<fn_input, vbVars, layVars, cycVars, vcdVars>>

NextBodyReader == BodyReaderNext

SpecBodyReader == InitBodyReader /\ [][NextBodyReader]_vars

(***************************************************************************)
(* SpecIdToInt: one call of id_to_int. The identifiers are all byte        *)
(* strings of up to two of the bytes ! # % c ~, all strings of up to       *)
(* MaxIdLen of the bytes ! c ~, those with one byte replaced by the byte   *)
(* just below ! or just above ~, and strings of ten bytes whose values lie *)
(* on both sides of 2^64 (gPpi,%>22@ reads as 2^64 - 1).                   *)
(***************************************************************************)
SeqsUpTo(S, n) == UNION { [1..k -> S] : k \in 0..n }

ShortIds == SeqsUpTo({33, 35, 37, 99, 126}, 2)

PlainIds == SeqsUpTo({33, 99, 126}, MaxIdLen)

BadByteIds ==
    UNION { { [id EXCEPT ![k] = bad] : k \in 1..Len(id), bad \in {32, 127} } :
            id \in PlainIds }

LongIds ==
    { <<b, 80, 112, 105, 44, 37, 62, 50, 50, 64>> : b \in 33..126 }
    \cup { [i \in 1..n |-> b] : n \in 9..11, b \in {33, 126} }

Ids == ShortIds \cup PlainIds \cup BadByteIds \cup LongIds

InitIdToInt ==
    /\ OthersUnused
    /\ fn_input \in Ids
    /\ fn_output = <<>>
    /\ fn_pc = "call"

IdToIntCall ==
    /\ fn_pc = "call"
    /\ fn_output' = id_to_int(fn_input)
    /\ fn_pc' = "return"
    /\ UNCHANGED <<fn_input, vbVars, layVars, cycVars, vcdVars>>

NextIdToInt == IdToIntCall

SpecIdToInt == InitIdToInt /\ [][NextIdToInt]_vars

(***************************************************************************)
(* Strings. A String is the sequence of the bytes of its UTF-8 encoding.   *)
(* String::from_utf8_lossy keeps every valid UTF-8 sequence and replaces   *)
(* every maximal invalid part by U+FFFD (the bytes EF BF BD).              *)
(***************************************************************************)
IsContinuation(b) == 128 <= b /\ b <= 191

\* the number of bytes of the valid UTF-8 sequence at the start of bytes, or 0
Utf8ValidLen(bytes) ==
    LET n == Len(bytes)
        b1 == bytes[1]
        Cont(i) == i <= n /\ IsContinuation(bytes[i])
        In(i, lo, hi) == i <= n /\ lo <= bytes[i] /\ bytes[i] <= hi
    IN  IF b1 < 128 THEN 1
        ELSE IF 194 <= b1 /\ b1 <= 223 /\ Cont(2) THEN 2
        ELSE IF \/ (b1 = 224 /\ In(2, 160, 191))
                \/ (b1 \in (225..236) \cup {238, 239} /\ Cont(2))
                \/ (b1 = 237 /\ In(2, 128, 159))
        THEN IF Cont(3) THEN 3 ELSE 0
        ELSE IF \/ (b1 = 240 /\ In(2, 144, 191))
                \/ (b1 \in 241..243 /\ Cont(2))
                \/ (b1 = 244 /\ In(2, 128, 143))
        THEN IF Cont(3) /\ Cont(4) THEN 4 ELSE 0
        ELSE 0

\* the number of bytes of the invalid part at the start of bytes (no valid
\* sequence starts there): the longest prefix of a valid sequence, at least 1
Utf8InvalidLen(bytes) ==
    LET n == Len(bytes)
        b1 == bytes[1]
        Cont(i) == i <= n /\ IsContinuation(bytes[i])
        In(i, lo, hi) == i <= n /\ lo <= bytes[i] /\ bytes[i] <= hi
        second3 == \/ (b1 = 224 /\ In(2, 160, 191))
                   \/ (b1 \in (225..236) \cup {238, 239} /\ Cont(2))
                   \/ (b1 = 237 /\ In(2, 128, 159))
        second4 == \/ (b1 = 240 /\ In(2, 144, 191))
                   \/ (b1 \in 241..243 /\ Cont(2))
                   \/ (b1 = 244 /\ In(2, 128, 143))
    IN  IF second3 THEN 2
        ELSE IF second4 THEN (IF Cont(3) THEN 3 ELSE 2)
        ELSE 1

RECURSIVE from_utf8_lossy(_)
\* the same that returns the empty String
from_utf8_lossy_empty(bytes) == <<>>

from_utf8_lossy(bytes) ==
    IF bytes = <<>> THEN <<>>
    ELSE LET v == Utf8ValidLen(bytes)
             k == IF v > 0 THEN v ELSE Utf8InvalidLen(bytes)
             head == IF v > 0 THEN SubSeq(bytes, 1, v) ELSE <<239, 191, 189>>
         IN  head \o from_utf8_lossy(SubSeq(bytes, k + 1, Len(bytes)))

\* std::str::from_utf8(bytes).is_ok()
RECURSIVE is_utf8(_)
is_utf8(bytes) ==
    \/ bytes = <<>>
    \/ LET v == Utf8ValidLen(bytes)
       IN  v > 0 /\ is_utf8(SubSeq(bytes, v + 1, Len(bytes)))

(***************************************************************************)
(* str::parse::<i32>: None when it is Err. The digits are accumulated as   *)
(* the standard library does, checked, downwards for a negative number.    *)
(***************************************************************************)
I32_MAX == 2147483647

RECURSIVE parse_i32_loop(_, _, _, _)
parse_i32_loop(digits, k, negative, result) ==
    IF k > Len(digits) THEN Some(result)
    ELSE IF ~(digits[k] \in 48..57) THEN None
    ELSE LET d == digits[k] - 48
             limit == IF negative /\ d > 0 THEN (I32_MAX - d + 1) \div 10
                      ELSE (I32_MAX - d) \div 10
             magnitude == IF negative THEN 0 - result ELSE result
         IN  IF magnitude > limit THEN None
             ELSE parse_i32_loop(digits, k + 1, negative,
                                 IF negative THEN result * 10 - d ELSE result * 10 + d)

parse_i32(str) ==
    LET signed == str # <<>> /\ str[1] \in {43, 45}
        digits == IF signed THEN Tail(str) ELSE str
    IN  IF digits = <<>> THEN None
        ELSE parse_i32_loop(digits, 1, signed /\ str[1] = 45, 0)

(***************************************************************************)
(* parse_name and its helpers. The result is Ok with the name, the index   *)
(* and the scopes, the error VcdVarNameParsing, or a panic (an unwrap of   *)
(* parse_inner_index fails).                                               *)
(***************************************************************************)
VarIndex_new(msb, lsb) == [msb |-> msb, lsb |-> lsb]

\* the same that strips nothing
trim_right_nothing(name) == name

RECURSIVE trim_right(_)
trim_right(name) ==
    IF name # <<>> /\ name[Len(name)] = 32
    THEN trim_right(SubSeq(name, 1, Len(name) - 1))
    ELSE name

\* the 0-based index of the last needle
find_last(haystack, needle) ==
    LET at == { i \in 1..Len(haystack) : haystack[i] = needle }
    IN  IF at = {} THEN None
        ELSE Some((CHOOSE i \in at : \A j \in at : j <= i) - 1)

\* index.iter().position(|b| *b == b':'), 0-based
position_of_colon(index) ==
    LET at == { i \in 1..Len(index) : index[i] = 58 }
    IN  IF at = {} THEN None ELSE Some(SetMin(at) - 1)

\* Some(VarIndex), or None when an unwrap panics
parse_inner_index(index) ==
    LET sep == position_of_colon(index)
    IN  IF sep = None
        THEN IF ~is_utf8(index) \/ parse_i32(index) = None THEN None
             ELSE Some(VarIndex_new(parse_i32(index).some, parse_i32(index).some))
        ELSE LET msb_bytes == SubSeq(index, 1, sep.some)
                 lsb_bytes == SubSeq(index, sep.some + 2, Len(index))
             IN  IF \/ ~is_utf8(msb_bytes) \/ parse_i32(msb_bytes) = None
                    \/ ~is_utf8(lsb_bytes) \/ parse_i32(lsb_bytes) = None
                 THEN None
                 ELSE Some(VarIndex_new(parse_i32(msb_bytes).some,
                                        parse_i32(lsb_bytes).some))

\* the while loop of parse_name: the other indices, from the last to the first
RECURSIVE parse_name_indices(_, _)
parse_name_indices(name, indices) ==
    IF name # <<>> /\ name[Len(name)] = 93
    THEN LET index_start == find_last(name, 91)
         IN  IF index_start = None
             THEN [err |-> TRUE, name |-> name, indices |-> indices]
             ELSE parse_name_indices(
                      trim_right(SubSeq(name, 1, index_start.some)),
                      Append(indices,
                             from_utf8_lossy(SubSeq(name, index_start.some + 1, Len(name)))))
    ELSE [err |-> FALSE, name |-> name, indices |-> indices]

ParseOk(name, index, scopes) ==
    [result |-> "Ok", name |-> name, index |-> index, scopes |-> scopes]

ParseErr == [result |-> "VcdVarNameParsing"]

ParsePanic == [result |-> "panic"]

parse_name(name) ==
    IF name = <<>> THEN ParseOk(<<>>, None, <<>>)
    ELSE
    LET last == name[Len(name)]
        index_start == find_last(name, 91)
    IN  IF last = 93 /\ index_start = None THEN ParseErr
        ELSE
        LET inner_index == SubSeq(name, index_start.some + 2, Len(name) - 1)
            index == IF last = 93 THEN parse_inner_index(inner_index) ELSE None
            name1 == IF last = 93 THEN trim_right(SubSeq(name, 1, index_start.some))
                     ELSE name
        IN  IF last = 93 /\ index = None THEN ParsePanic
            ELSE
            LET r == parse_name_indices(name1, <<>>)
                n == Len(r.indices)
                name2 == from_utf8_lossy(r.name)
            IN  IF r.err THEN ParseErr
                ELSE IF n = 0 THEN ParseOk(name2, index, <<>>)
                ELSE ParseOk(r.indices[1], index,
                             <<name2>> \o [k \in 1..(n - 1) |-> r.indices[n + 1 - k]])

(***************************************************************************)
(* SpecParseName: one call of parse_name. The names are the byte strings   *)
(* of up to MaxNameLen of the bytes t, space, [ ] 0 : 0xFF and the two     *)
(* bytes 0xC3, 0xA9 of U+00E9, and the names made of a prefix, up to       *)
(* MaxBrackets further brackets and an index                               *)
(* bracket, with or without spaces before each bracket. A name does not    *)
(* start with a space or [ and does not end with a space, as parse_name    *)
(* assumes (debug_assert).                                                 *)
(***************************************************************************)
NameAllowed(name) ==
    name = <<>> \/ (name[1] # 32 /\ name[1] # 91 /\ name[Len(name)] # 32)

RawNames ==
    { name \in SeqsUpTo({116, 32, 91, 93, 48, 58, 255, 195, 169}, MaxNameLen) :
        NameAllowed(name) }

\* test, t e, t]e
NamePrefixes == { <<116, 101, 115, 116>>, <<116, 32, 101>>, <<116, 93, 101>> }

\* [0], [3], [2], each after no space or after one
NameBrackets ==
    { [spaces |-> sp, bracket |-> <<91, d, 93>>] : sp \in {<<>>, <<32>>}, d \in {48, 51, 50} }

\* [0], [-3], [1:0], [1:-1], each after no space or after two
NameIndices ==
    { [spaces |-> sp, bracket |-> i[1], msb |-> i[2], lsb |-> i[3]] :
        sp \in {<<>>, <<32, 32>>},
        i \in { <<<<91, 48, 93>>, 0, 0>>, <<<<91, 45, 51, 93>>, 0 - 3, 0 - 3>>,
                <<<<91, 49, 58, 48, 93>>, 1, 0>>,
                <<<<91, 49, 58, 45, 49, 93>>, 1, 0 - 1>> } }

RECURSIVE JoinBrackets(_)
JoinBrackets(bs) ==
    IF bs = <<>> THEN <<>>
    ELSE bs[1].spaces \o bs[1].bracket \o JoinBrackets(Tail(bs))

\* a name with its parts
BracketName(prefix, extra, index) ==
    [name |-> prefix \o JoinBrackets(extra) \o index.spaces \o index.bracket,
     parts |-> Some([prefix |-> prefix, extra |-> extra, index |-> index])]

InitParseName ==
    /\ OthersUnused
    /\ \/ \E n \in RawNames : fn_input = [name |-> n, parts |-> None]
       \/ \E p \in NamePrefixes, e \in SeqsUpTo(NameBrackets, MaxBrackets), i \in NameIndices :
             fn_input = BracketName(p, e, i)
    /\ fn_output = <<>>
    /\ fn_pc = "call"

ParseNameCall ==
    /\ fn_pc = "call"
    /\ fn_output' = parse_name(fn_input.name)
    /\ fn_pc' = "return"
    /\ UNCHANGED <<fn_input, vbVars, layVars, cycVars, vcdVars>>

NextParseName == ParseNameCall

SpecParseName == InitParseName /\ [][NextParseName]_vars

(***************************************************************************)
(* The header tokenizer: read_command and its helpers. The input is a byte *)
(* string and pos the number of bytes read so far; read_byte fails at the  *)
(* end of the input (read_exact), and the failure is passed on by `?`.     *)
(***************************************************************************)
\* b"date", b"timescale", b"var", b"scope", b"upscope", b"comment",
\* b"version", b"enddefinitions", b"attrbegin"
VCD_DATE == <<100, 97, 116, 101>>
VCD_TIMESCALE == <<116, 105, 109, 101, 115, 99, 97, 108, 101>>
VCD_VAR == <<118, 97, 114>>
VCD_SCOPE == <<115, 99, 111, 112, 101>>
VCD_UP_SCOPE == <<117, 112, 115, 99, 111, 112, 101>>
VCD_COMMENT == <<99, 111, 109, 109, 101, 110, 116>>
VCD_VERSION == <<118, 101, 114, 115, 105, 111, 110>>
VCD_END_DEFINITIONS == <<101, 110, 100, 100, 101, 102, 105, 110, 105, 116, 105, 111, 110, 115>>
VCD_ATTRIBUTE_BEGIN == <<97, 116, 116, 114, 98, 101, 103, 105, 110>>

\* VcdCmd::from_bytes
VcdCmd_from_bytes(name) ==
    IF name = VCD_VAR THEN Some("Var")
    ELSE IF name = VCD_SCOPE THEN Some("Scope")
    ELSE IF name = VCD_UP_SCOPE THEN Some("UpScope")
    ELSE IF name = VCD_DATE THEN Some("Date")
    ELSE IF name = VCD_TIMESCALE THEN Some("Timescale")
    ELSE IF name = VCD_COMMENT THEN Some("Comment")
    ELSE IF name = VCD_VERSION THEN Some("Version")
    ELSE IF name = VCD_END_DEFINITIONS THEN Some("EndDefinitions")
    ELSE IF name = VCD_ATTRIBUTE_BEGIN THEN Some("Attribute")
    ELSE None

\* the same that strips nothing
right_strip_nothing(buf) == buf

RECURSIVE right_strip(_)
right_strip(buf) ==
    IF buf # <<>> /\ IsWhitespace(buf[Len(buf)])
    THEN right_strip(SubSeq(buf, 1, Len(buf) - 1))
    ELSE buf

IoError == [err |-> TRUE]

RECURSIVE skip_whitespace(_, _)
skip_whitespace(input, pos) ==
    IF pos >= Len(input) THEN IoError
    ELSE IF IsWhitespace(input[pos + 1]) THEN skip_whitespace(input, pos + 1)
    ELSE [err |-> FALSE, byte |-> input[pos + 1], pos |-> pos + 1]

RECURSIVE read_token(_, _, _)
read_token(input, pos, buf) ==
    IF pos >= Len(input) THEN IoError
    ELSE IF IsWhitespace(input[pos + 1]) THEN [err |-> FALSE, buf |-> buf, pos |-> pos + 1]
    ELSE read_token(input, pos + 1, Append(buf, input[pos + 1]))

\* the match on (end_index, byte): 4 stands for the arm that returns
end_index_next(end_index, byte) ==
    IF end_index = 0 /\ byte = 36 THEN 1
    ELSE IF end_index = 1 /\ byte = 101 THEN 2
    ELSE IF end_index = 2 /\ byte = 110 THEN 3
    ELSE IF end_index = 3 /\ byte = 100 THEN 4
    ELSE 0

RECURSIVE read_until_end_token_loop(_, _, _, _, _)
read_until_end_token_loop(input, pos, buf, end_index, skipping_preceding_whitespace) ==
    IF pos >= Len(input) THEN IoError
    ELSE LET byte == input[pos + 1]
         IN  IF skipping_preceding_whitespace /\ IsWhitespace(byte)
             THEN read_until_end_token_loop(input, pos + 1, buf, end_index, TRUE)
             ELSE LET pushed == Append(buf, byte)
                      next_index == end_index_next(end_index, byte)
                  IN  IF next_index = 4
                      THEN [err |-> FALSE, pos |-> pos + 1,
                            buf |-> right_strip(SubSeq(pushed, 1, Len(pushed) - 4))]
                      ELSE read_until_end_token_loop(input, pos + 1, pushed, next_index, FALSE)

read_until_end_token(input, pos, buf) ==
    read_until_end_token_loop(input, pos, buf, 0, TRUE)

\* Ok with the command, the body and the bytes read, or an error, or the
\* panic of VcdCmd::from_bytes_or_panic
read_command(input) ==
    LET start == skip_whitespace(input, 0)
    IN  IF start.err THEN [result |-> "Io"]
        ELSE IF start.byte # 36
        THEN [result |-> "VcdStartChar", char |-> from_utf8_lossy(<<start.byte>>)]
        ELSE LET token == read_token(input, start.pos, <<>>)
             IN  IF token.err THEN [result |-> "Io"]
                 ELSE IF VcdCmd_from_bytes(token.buf) = None THEN [result |-> "panic"]
                 ELSE LET body0 == read_until_end_token(input, token.pos, <<>>)
                      IN  IF body0.err THEN [result |-> "Io"]
                          ELSE [result |-> "Ok", cmd |-> VcdCmd_from_bytes(token.buf).some,
                                body |-> body0.buf, pos |-> body0.pos]

(***************************************************************************)
(* SpecReadCommand: one call of read_command. The inputs are the commands  *)
(* made of a keyword, a body and $end with whitespace w0 before the        *)
(* keyword, w1 after it (at least one byte), w2 after the body and w3      *)
(* after $end, of at most MaxSpace bytes together, the two inputs of       *)
(* test_read_command and one more of that kind, and a few inputs that are  *)
(* no command.                                                             *)
(***************************************************************************)
\* x, "1 \n ns", a$b, $endian, "a $endx"
CommandBodies ==
    { <<>>, <<120>>, <<49, 32, 10, 32, 110, 115>>, <<97, 36, 98>>,
      <<36, 101, 110, 100, 105, 97, 110>>, <<97, 32, 36, 101, 110, 100, 120>> }

CommandKeywords == { VCD_UP_SCOPE, VCD_COMMENT }

Command(w0, kw, w1, text, w2, w3) ==
    [input |-> w0 \o <<36>> \o kw \o w1 \o text \o w2 \o END \o w3,
     parts |-> Some([kw |-> kw, body |-> text, space |-> <<w0, w1, w2, w3>>])]

SpaceLengths ==
    { l \in [1..4 -> 0..MaxSpace] : l[2] >= 1 /\ l[1] + l[2] + l[3] + l[4] <= MaxSpace }

\* "$upscope $end", " \t $upscope \n $end  \n ", "\r\n$var \t wire 1 ! a\t\n$end \r"
ExampleCommands ==
    { Command(<<>>, VCD_UP_SCOPE, <<32>>, <<>>, <<>>, <<>>),
      Command(<<32, 9, 32>>, VCD_UP_SCOPE, <<32, 10, 32>>, <<>>, <<>>, <<32, 32, 10, 32>>),
      Command(<<13, 10>>, VCD_VAR, <<32, 9, 32>>,
              <<119, 105, 114, 101, 32, 49, 32, 33, 32, 97>>, <<9, 10>>, <<32, 13>>) }

\* "", "  ", "x", " \xFF", "$", "$foo ", "$var", "$var x", "$var$end ", "$var a$$end",
\* "$var a$e$end", "$var a$en$end"
NoCommands ==
    { [input |-> i, parts |-> None] :
        i \in { <<>>, <<32, 32>>, <<120>>, <<32, 255>>, <<36>>, <<36, 102, 111, 111, 32>>,
                <<36, 118, 97, 114>>, <<36, 118, 97, 114, 32, 120>>,
                <<36, 118, 97, 114, 36, 101, 110, 100, 32>>,
                <<36, 118, 97, 114, 32, 97, 36, 36, 101, 110, 100>>,
                <<36, 118, 97, 114, 32, 97, 36, 101, 36, 101, 110, 100>>,
                <<36, 118, 97, 114, 32, 97, 36, 101, 110, 36, 101, 110, 100>> } }

InitReadCommand ==
    /\ OthersUnused
    /\ \/ \E l \in SpaceLengths, kw \in CommandKeywords, text \in CommandBodies :
             \E w0 \in [1..l[1] -> Whitespace], w1 \in [1..l[2] -> Whitespace],
                w2 \in [1..l[3] -> Whitespace], w3 \in [1..l[4] -> Whitespace] :
                fn_input = Command(w0, kw, w1, text, w2, w3)
       \/ fn_input \in ExampleCommands \cup NoCommands
    /\ fn_output = <<>>
    /\ fn_pc = "call"

ReadCommandCall ==
    /\ fn_pc = "call"
    /\ fn_output' = read_command(fn_input.input)
    /\ fn_pc' = "return"
    /\ UNCHANGED <<fn_input, vbVars, layVars, cycVars, vcdVars>>

NextReadCommand == ReadCommandCall

SpecReadCommand == InitReadCommand /\ [][NextReadCommand]_vars

(***************************************************************************)
(* read_hierarchy: the variable declarations of a header, one call of the  *)
(* callback per $var command. The state of the call is use_id_map, id_map  *)
(* (the identifiers in the order of their insertion: the n-th one maps to  *)
(* the SignalRef made from n), var_count and the add_var calls made on the *)
(* hierarchy builder. The type and the size of every variable are valid.   *)
(***************************************************************************)
\* SignalRef::from_index(index), index a u64
SignalRef_from_index(index) == Some([index |-> index])

\* 1024 * 1024
DIRECT_ID_LIMIT == <<0, 0, 16, 0>>

\* the same for every variable
is_first_variable_always(var_count) == TRUE

\* var_count == 0
is_first_variable(var_count) == var_count = 0

\* the same that counts from 0
new_map_index_from_zero(id_map) == Len(id_map)

\* id_map.len() + 1
new_map_index(id_map) == Len(id_map) + 1

\* id_map.get(id): the position of id in id_map
id_map_get(id_map, id) ==
    LET at == { n \in 1..Len(id_map) : id_map[n].id = id }
    IN  IF at = {} THEN None ELSE Some(id_map[CHOOSE n \in at : TRUE].signal_ref)

\* the closure id_to_signal_ref: the SignalRef (None when an unwrap panics)
\* and the new use_id_map and id_map
id_to_signal_ref(id, var_count, use_id_map, id_map) ==
    LET id_value == id_to_int(id)
        direct_first == /\ is_first_variable(var_count)
                        /\ id_value # None
                        /\ u64_lt(id_value.some, DIRECT_ID_LIMIT)
        use_id_map1 == IF is_first_variable(var_count) /\ ~direct_first
                       THEN TRUE ELSE use_id_map
    IN  IF direct_first
        THEN [signal_ref |-> SignalRef_from_index(id_value.some),
              use_id_map |-> use_id_map, id_map |-> id_map]
        ELSE IF use_id_map1
        THEN IF id_map_get(id_map, id) # None
             THEN [signal_ref |-> id_map_get(id_map, id),
                   use_id_map |-> use_id_map1, id_map |-> id_map]
             ELSE LET signal_ref == SignalRef_from_index(u64_of(new_map_index(id_map)))
                  IN  [signal_ref |-> signal_ref, use_id_map |-> use_id_map1,
                       id_map |-> Append(id_map, [id |-> id, signal_ref |-> signal_ref.some])]
        ELSE [signal_ref |-> IF id_value = None THEN None
                             ELSE SignalRef_from_index(id_value.some),
              use_id_map |-> use_id_map1, id_map |-> id_map]

\* SignalRef::index
SignalRef_index(signal_ref) == signal_ref.index

\* mutant: the identifier is decoded whatever the lookup is
lookup_num_id_direct(lookup, id) == id_to_int(id)

\* num_id of read_single_stream_of_values: None when the unwrap or the
\* indexing of the map panics
lookup_num_id(lookup, id) ==
    IF lookup = None THEN id_to_int(id)
    ELSE LET signal_ref == id_map_get(lookup.some, id)
         IN  IF signal_ref = None THEN None ELSE Some(SignalRef_index(signal_ref.some))

(***************************************************************************)
(* SpecHierarchy: read_hierarchy over up to MaxVars $var commands, each    *)
(* with an identifier among ! # &_8! (2^20 - 1) '_8! (2^20) and the byte   *)
(* 0x7F, and the name a[0] or a] (which parse_name rejects); then one      *)
(* value change of the body with any of the identifiers.                   *)
(***************************************************************************)
VarIds == { <<33>>, <<35>>, <<38, 95, 56, 33>>, <<39, 95, 56, 33>>, <<127>> }

VarNames == { <<97, 91, 48, 93>>, <<97, 93>> }

VarCommands == SeqsUpTo([id : VarIds, name : VarNames], MaxVars)

InitHierarchy ==
    /\ OthersUnused
    /\ fn_input \in VarCommands
    /\ fn_output = [use_id_map |-> FALSE, id_map |-> <<>>, var_count |-> 0,
                    add_var |-> <<>>, lookup |-> None, body |-> <<>>]
    /\ fn_pc = "header"

\* the callback on HeaderCmd::Var
HierarchyVar ==
    /\ fn_pc = "header"
    /\ Len(fn_output.add_var) < Len(fn_input)
    /\ LET var == fn_input[Len(fn_output.add_var) + 1]
           parsed == parse_name(var.name)
           r == id_to_signal_ref(var.id, fn_output.var_count,
                                 fn_output.use_id_map, fn_output.id_map)
       IN  IF parsed.result = "panic"
           THEN fn_pc' = "panic" /\ UNCHANGED fn_output
           ELSE IF parsed.result # "Ok"
           THEN fn_pc' = "error" /\ UNCHANGED fn_output
           ELSE IF r.signal_ref = None
           THEN /\ fn_pc' = "panic"
                /\ fn_output' = [fn_output EXCEPT !.use_id_map = r.use_id_map,
                                                  !.id_map = r.id_map]
           ELSE /\ fn_pc' = "header"
                /\ fn_output' = [fn_output EXCEPT
                       !.use_id_map = r.use_id_map,
                       !.id_map = r.id_map,
                       !.var_count = @ + 1,
                       !.add_var = Append(@, [name |-> parsed.name, index |-> parsed.index,
                                              signal_ref |-> r.signal_ref.some])]
    /\ UNCHANGED <<fn_input, vbVars, layVars, cycVars, vcdVars>>

\* read_hierarchy after read_vcd_header
HierarchyFinish ==
    /\ fn_pc = "header"
    /\ Len(fn_output.add_var) = Len(fn_input)
    /\ fn_pc' = "done"
    /\ fn_output' = [fn_output EXCEPT
           !.lookup = IF fn_output.use_id_map THEN Some(fn_output.id_map) ELSE None]
    /\ UNCHANGED <<fn_input, vbVars, layVars, cycVars, vcdVars>>

\* read_single_stream_of_values on a Value command with the identifier id,
\* after a time stamp: the signal index of its vcd_value_change
HierarchyBodyValue ==
    /\ fn_pc = "done"
    /\ \E id \in VarIds :
          LET num_id == lookup_num_id(fn_output.lookup, id)
          IN  /\ fn_pc' = IF num_id = None THEN "body_panic" ELSE "body"
              /\ fn_output' = [fn_output EXCEPT !.body = <<[id |-> id, num_id |-> num_id]>>]
    /\ UNCHANGED <<fn_input, vbVars, layVars, cycVars, vcdVars>>

NextHierarchy == HierarchyVar \/ HierarchyFinish \/ HierarchyBodyValue

SpecHierarchy == InitHierarchy /\ [][NextHierarchy]_vars

(***************************************************************************)
(* read_signals: the loop over the sections. A section is its four-byte    *)
(* mark and whether its reader returns an error; the end of the input      *)
(* follows the last section. The encoder is the sequence of the sections   *)
(* whose reader was given the encoder (read_snapshot_section and           *)
(* read_cycle_section; read_directory gets the header and the input only). *)
(***************************************************************************)
\* b"SNP\0", b"CYC\0", b"DIR\0", b"TAI\0"
GHW_SNAPSHOT_SECTION == <<83, 78, 80, 0>>
GHW_CYCLE_SECTION == <<67, 89, 67, 0>>
GHW_DIRECTORY_SECTION == <<68, 73, 82, 0>>
GHW_TAILER_SECTION == <<84, 65, 73, 0>>

\* the same where any other mark is skipped like a directory
match_mark_skips_others(mark) ==
    IF mark = GHW_SNAPSHOT_SECTION THEN "snapshot"
    ELSE IF mark = GHW_CYCLE_SECTION THEN "cycle"
    ELSE IF mark = GHW_TAILER_SECTION THEN "tailer"
    ELSE "directory"

\* the arm of match &mark
match_mark(mark) ==
    IF mark = GHW_SNAPSHOT_SECTION THEN "snapshot"
    ELSE IF mark = GHW_CYCLE_SECTION THEN "cycle"
    ELSE IF mark = GHW_DIRECTORY_SECTION THEN "directory"
    ELSE IF mark = GHW_TAILER_SECTION THEN "tailer"
    ELSE "other"

\* the four marks, b"EOH\0", and whether the reader of the section fails
Sections ==
    { [mark |-> m, fails |-> f] :
        m \in {GHW_SNAPSHOT_SECTION, GHW_CYCLE_SECTION, GHW_DIRECTORY_SECTION},
        f \in BOOLEAN }
    \cup { [mark |-> m, fails |-> FALSE] : m \in {GHW_TAILER_SECTION, <<69, 79, 72, 0>>} }

InitSignals ==
    /\ OthersUnused
    /\ fn_input \in SeqsUpTo(Sections, MaxSections)
    /\ fn_output = [read |-> 0, encoder |-> <<>>, result |-> None]
    /\ fn_pc = "loop"

\* one iteration of the loop of read_signals
ReadSignalsSection ==
    /\ fn_pc = "loop"
    /\ IF fn_output.read >= Len(fn_input)
       THEN \* input.read_exact(&mut mark)?
            /\ fn_pc' = "return"
            /\ fn_output' = [fn_output EXCEPT !.result = Some([err |-> "Io"])]
       ELSE LET section == fn_input[fn_output.read + 1]
                arm == match_mark(section.mark)
                read1 == fn_output.read + 1
                encoder1 == IF arm \in {"snapshot", "cycle"}
                            THEN Append(fn_output.encoder, [section |-> read1, arm |-> arm])
                            ELSE fn_output.encoder
            IN  IF arm = "tailer"
                THEN /\ fn_pc' = "return"
                     /\ fn_output' = [read |-> read1, encoder |-> encoder1,
                                      result |-> Some([ok |-> encoder1])]
                ELSE IF arm = "other"
                THEN /\ fn_pc' = "return"
                     /\ fn_output' = [read |-> read1, encoder |-> encoder1,
                                      result |-> Some([err |-> "UnexpectedSection",
                                                       mark |-> from_utf8_lossy(section.mark)])]
                ELSE IF section.fails
                THEN /\ fn_pc' = "return"
                     /\ fn_output' = [read |-> read1, encoder |-> encoder1,
                                      result |-> Some([err |-> "Section"])]
                ELSE /\ fn_pc' = "loop"
                     /\ fn_output' = [read |-> read1, encoder |-> encoder1, result |-> None]
    /\ UNCHANGED <<fn_input, vbVars, layVars, cycVars, vcdVars>>

NextSignals == ReadSignalsSection

SpecSignals == InitSignals /\ [][NextSignals]_vars

(***************************************************************************)
(* SpecSnapshot: read_snapshot_section on the signals of one vector of any *)
(* width up to MaxWidth: after time_change the loop reads every signal of  *)
(* the decode info once, in the order of declaration, with                 *)
(* read_signal_value, and finish_time_step closes the timestep.            *)
(***************************************************************************)
InitSnapshot ==
    /\ FnUnused
    /\ LayoutUnused
    /\ CycleUnused
    /\ VcdUnused
    /\ \E w \in 1..MaxWidth : \E s \in VecStates : decode_info = VectorSignals(0, w, s)
    /\ vecs = from_decode_info(decode_info, SignalRefCount(decode_info))
    /\ enc = <<>>
    /\ step_writes = <<>>
    /\ step_start = vecs.data
    /\ phase = "open"

\* one turn of `for sig in info.signals.iter()`
SnapshotReadSignal ==
    /\ phase = "open"
    /\ Len(step_writes) < Len(decode_info)
    /\ LET signal == decode_info[Len(step_writes) + 1]
       IN  \E value \in Values(signal.tpe) :
               LET r == read_signal_value(vecs, signal, value)
               IN  /\ vecs' = r.vecs
                   /\ enc' = enc \o r.out
                   /\ step_writes' = Append(step_writes,
                          [signal_ref |-> signal.signal_ref, bit |-> signal.tpe.bit, value |-> value,
                           marked |-> has_bit_changed(vecs, vecs.info[signal.signal_ref], signal.tpe.bit),
                           old |-> get_value(vecs, vecs.info[signal.signal_ref], signal.tpe.bit),
                           before |-> full_value(vecs, signal.signal_ref),
                           enc_at |-> Len(enc)])
    /\ UNCHANGED <<decode_info, step_start, phase, layVars, cycVars, vcdVars, fnVars>>

\* finish_time_step(vecs, enc) after the loop
SnapshotFinish ==
    /\ phase = "open"
    /\ Len(step_writes) = Len(decode_info)
    /\ LET r == finish_time_step(vecs)
       IN  /\ vecs' = r.vecs
           /\ enc' = enc \o r.out
    /\ phase' = "flushed"
    /\ UNCHANGED <<decode_info, step_writes, step_start, layVars, cycVars, vcdVars, fnVars>>

NextSnapshot == SnapshotReadSignal \/ SnapshotFinish

SpecSnapshot == InitSnapshot /\ [][NextSnapshot]_vars

(***************************************************************************)
(* SpecBodyTokens: a BodyReader over a body of tokens, driven as an        *)
(* iterator and called once more after it has returned None. The body is   *)
(* a sequence of tokens joined by a space, or each followed by a newline:  *)
(* any tokens, or a token before a comment, the comment from $comment to  *)
(* $end, and a token after it.                                             *)
(***************************************************************************)
\* the tokens $comment and $end of a body
CommentOpen == <<36, 99, 111, 109, 109, 101, 110, 116>>
CommentClose == <<36, 101, 110, 100>>

\* #5, 1!, 1, b1, !, ?a, $comment, $end, $dumpall
BodyTokens ==
    { <<35, 53>>, <<49, 33>>, <<49>>, <<98, 49>>, <<33>>, <<63, 97>>,
      CommentOpen, CommentClose, <<36, 100, 117, 109, 112, 97, 108, 108>> }

\* the tokens inside a comment: #5, 1, b1, $comment
CommentTokens == { <<35, 53>>, <<49>>, <<98, 49>>, CommentOpen }

\* what stands before a comment: nothing, #5, or $dumpvars
BeforeComment == { <<>>, << <<35, 53>> >>, << <<36, 100, 117, 109, 112, 118, 97, 114, 115>> >> }

\* the whitespace of a body: the byte between two tokens and whether it
\* follows the last token too: b' ' between, or b'\n' after every token
TokenSeparators == { <<32, FALSE>>, <<10, TRUE>> }

RECURSIVE JoinTokens(_, _)
JoinTokens(tokens, sep) ==
    IF tokens = <<>> THEN <<>>
    ELSE IF Len(tokens) = 1 THEN tokens[1]
    ELSE tokens[1] \o <<sep>> \o JoinTokens(Tail(tokens), sep)

\* a body: its tokens, the three parts around the comment (if it has one)
\* and its bytes
TokenBody(before, inside, after, has_comment, sep, tail) ==
    LET tokens == IF has_comment
                  THEN before \o <<CommentOpen>> \o inside \o <<CommentClose>> \o after
                  ELSE after
    IN  [tokens |-> tokens, before |-> before, inside |-> inside, after |-> after,
         has_comment |-> has_comment, sep |-> sep,
         bytes |-> JoinTokens(tokens, sep) \o (IF tail THEN <<sep>> ELSE <<>>)]

InitBodyTokens ==
    /\ OthersUnused
    /\ \E ws \in TokenSeparators :
          \/ \E n \in 1..MaxTokens : \E ts \in [1..n -> BodyTokens] :
                fn_input = TokenBody(<<>>, <<>>, ts, FALSE, ws[1], ws[2])
          \/ \E before \in BeforeComment : \E n \in 0..MaxComment :
             \E inside \in [1..n -> CommentTokens] :
             \E after \in {<<>>} \cup { <<t>> : t \in BodyTokens } :
                fn_input = TokenBody(before, inside, after, TRUE, ws[1], ws[2])
    \* BodyReader::new
    /\ fn_output = [pos |-> 0, items |-> <<>>]
    /\ fn_pc = "running"

\* reader.next(): while the iterator runs, and once after it returned None
BodyTokensNext ==
    /\ fn_pc \in {"running", "exhausted"}
    /\ LET r == next(RunsOf(fn_input.bytes), fn_output.pos)
       IN  IF r.panic
           THEN fn_pc' = "panic" /\ UNCHANGED fn_output
           ELSE IF r.item = None
           THEN /\ fn_pc' = IF fn_pc = "running" THEN "exhausted" ELSE "fused"
                /\ fn_output' = [fn_output EXCEPT !.pos = r.pos]
           ELSE /\ fn_pc' = "running"
                /\ fn_output' = [pos |-> r.pos, items |-> Append(fn_output.items, r.item.some)]
    /\ UNCHANGED <<fn_input, vbVars, layVars, cycVars, vcdVars>>

NextBodyTokens == BodyTokensNext

SpecBodyTokens == InitBodyTokens /\ [][NextBodyTokens]_vars

(***************************************************************************)
(* parse_attribute for the opcode 02 (VHDL type info) of an                *)
(* `attrbegin misc` command. fst_native is not part of the sources: the    *)
(* members of FstVhdlVarType and FstVhdlDataType are the values the FST    *)
(* format gives them, 0..5 and 0..16.                                      *)
(***************************************************************************)
FST_SUP_VAR_DATA_TYPE_BITS == 10

FST_SUP_VAR_DATA_TYPE_MASK == Pow2(FST_SUP_VAR_DATA_TYPE_BITS) - 1

\* FstVhdlVarType: None, Signal, Variable, Constant, File, Memory
FstVhdlVarType == 0..5

\* FstVhdlDataType: None, Boolean, Bit, Vector, ULogic, ULogicVector, Logic,
\* LogicVector, Unsigned, Signed, Integer, Real, Natural, Positive, Time,
\* Character, String
FstVhdlDataType == 0..16

\* num_enum's try_from_primitive for an enumeration with the given members
try_from_primitive(members, number) ==
    IF number \in members THEN Some(number) ELSE None

\* x as u8, for x below 2^32
as_u8(x) == x % 256

\* (arg >> FST_SUP_VAR_DATA_TYPE_BITS) as u8: the bits 10..17 of arg
var_type_byte(arg) ==
    as_u8((arg[3] % Pow2(FST_SUP_VAR_DATA_TYPE_BITS)) * (Limb \div Pow2(FST_SUP_VAR_DATA_TYPE_BITS))
          + arg[4] \div Pow2(FST_SUP_VAR_DATA_TYPE_BITS))

\* (arg & FST_SUP_VAR_DATA_TYPE_MASK) as u8: the bits 0..7 of arg
data_type_byte(arg) == as_u8(arg[4] % (FST_SUP_VAR_DATA_TYPE_MASK + 1))

\* the arm b"02" of parse_attribute
parse_attribute_02(tokens) ==
    IF Len(tokens) # 4 THEN [ok |-> FALSE, err |-> "VcdUnexpectedNumberOfTokens"]
    ELSE IF ~is_utf8(tokens[3]) \/ ~is_utf8(tokens[4]) THEN [ok |-> FALSE, err |-> "VcdStrParse"]
    ELSE LET arg == parse_u64(tokens[4])
         IN  IF arg = None THEN [ok |-> FALSE, err |-> "VcdIntParse"]
             ELSE LET var_type == try_from_primitive(FstVhdlVarType, var_type_byte(arg.some))
                      data_type == try_from_primitive(FstVhdlDataType, data_type_byte(arg.some))
                  IN  IF var_type = None
                      THEN [ok |-> FALSE, err |-> "VcdFailedToParseVhdlVarType"]
                      ELSE IF data_type = None
                      THEN [ok |-> FALSE, err |-> "VcdFailedToParseVhdlDataType"]
                      ELSE [ok |-> TRUE, type_name |-> tokens[3],
                            var_type |-> var_type.some, data_type |-> data_type.some]

(***************************************************************************)
(* SpecAttribute: one call of parse_attribute on the tokens                *)
(* `misc 02 <type name> <packed>`. The packed values are the decimal       *)
(* numbers var * 1024 + data for fields inside, at the edge of and beyond  *)
(* the enumerations and the byte, and some that are not a u64.             *)
(***************************************************************************)
RECURSIVE ToDigits(_)
ToDigits(n) == IF n < 10 THEN <<48 + n>> ELSE Append(ToDigits(n \div 10), 48 + (n % 10))

VarFields == {0, 1, 5, 6, 255, 256, 261, 262}

DataFields == {0, 1, 16, 17, 255, 256, 272, 273, 1023}

\* var * 1024 + data; 2^64 - 1; 2^64; an empty token; the token x
PackedTokens ==
    { ToDigits(var * 1024 + data) : var \in VarFields, data \in DataFields }
    \cup { <<49, 56, 52, 52, 54, 55, 52, 52, 48, 55, 51, 55, 48, 57, 53, 53, 49, 54, 49, 53>>,
           <<49, 56, 52, 52, 54, 55, 52, 52, 48, 55, 51, 55, 48, 57, 53, 53, 49, 54, 49, 54>>,
           <<120>> }

\* misc 02 <type name> <packed>, the type name being t or the byte 0xff
AttributeTokens ==
    { << <<109, 105, 115, 99>>, <<48, 50>>, name, packed >> :
        name \in { <<116>>, <<255>> }, packed \in PackedTokens }
    \cup { << <<109, 105, 115, 99>>, <<48, 50>>, <<116>> >> }

InitAttribute ==
    /\ OthersUnused
    /\ fn_input \in AttributeTokens
    /\ fn_output = <<>>
    /\ fn_pc = "call"

ParseAttributeCall ==
    /\ fn_pc = "call"
    /\ fn_output' = parse_attribute_02(fn_input)
    /\ fn_pc' = "return"
    /\ UNCHANGED <<fn_input, vbVars, layVars, cycVars, vcdVars>>

NextAttribute == ParseAttributeCall

SpecAttribute == InitAttribute /\ [][NextAttribute]_vars

(***************************************************************************)
(* SpecIdPair: id_to_int on two identifiers, and the SignalRef that        *)
(* id_to_signal_ref gives each of them in direct mode (a variable after    *)
(* the first, use_id_map false). The identifiers are the byte strings of   *)
(* up to MaxPairIdLen bytes among ! " ~, the space, and identifiers of ten *)
(* and eleven bytes around 2^64.                                           *)
(***************************************************************************)
PairIds ==
    SeqsUpTo({33, 34, 126}, MaxPairIdLen)
    \cup { <<32>>, <<33, 32>> }
    \cup { <<b, 80, 112, 105, 44, 37, 62, 50, 50, 64>> : b \in {102, 103, 104} }
    \cup { [i \in 1..11 |-> 33] }

InitIdPair ==
    /\ OthersUnused
    /\ \E id1 \in PairIds : \E id2 \in PairIds : fn_input = <<id1, id2>>
    /\ fn_output = <<>>
    /\ fn_pc = "call"

IdPairCall ==
    /\ fn_pc = "call"
    /\ fn_output' = [i \in 1..2 |->
           [value |-> id_to_int(fn_input[i]),
            signal_ref |-> id_to_signal_ref(fn_input[i], 1, FALSE, <<>>).signal_ref]]
    /\ fn_pc' = "return"
    /\ UNCHANGED <<fn_input, vbVars, layVars, cycVars, vcdVars>>

NextIdPair == IdPairCall

SpecIdPair == InitIdPair /\ [][NextIdPair]_vars

(***************************************************************************)
(* SpecSetGet: set_value and get_value on the data bytes of one vector of  *)
(* any width up to MaxWidth and either state encoding. The vector's data   *)
(* range starts at byte 1 of the data, between one byte of another signal  *)
(* before it and one after it. Any bit is written any number of times,     *)
(* with the value 0 or the mask of its slot; written holds the value       *)
(* last written to each bit.                                               *)
(***************************************************************************)
SetGetInfos ==
    { [data_start |-> 1, bit_change_start |-> 0, bits |-> w, states |-> s] :
        w \in 1..MaxWidth, s \in VecStates }

\* 0 and the mask of the slot
SetGetValues(info) == {0, States_mask(info.states)}

InitSetGet ==
    /\ OthersUnused
    /\ fn_input \in SetGetInfos
    /\ fn_output = [data |-> [i \in 0..(Cardinality(data_range(fn_input)) + 1) |-> 0],
                    written |-> [bit \in 0..(fn_input.bits - 1) |-> 0]]
    /\ fn_pc = "new"

\* Self::set_value(&mut self.data, info, bit, value)
SetValue ==
    /\ fn_pc \in {"new", "written"}
    /\ \E bit \in 0..(fn_input.bits - 1) : \E value \in SetGetValues(fn_input) :
          fn_output' = [data |-> set_value(fn_output.data, fn_input, bit, value),
                        written |-> [fn_output.written EXCEPT ![bit] = value]]
    /\ fn_pc' = "written"
    /\ UNCHANGED <<fn_input, vbVars, layVars, cycVars, vcdVars>>

NextSetGet == SetValue

SpecSetGet == InitSetGet /\ [][NextSetGet]_vars

(***************************************************************************)
(* Properties of the change buffer (SpecVec).                              *)
(***************************************************************************)
Range(seq) == { seq[i] : i \in 1..Len(seq) }

Count(seq, x) == Cardinality({ i \in 1..Len(seq) : seq[i] = x })

SignalRefs == DOMAIN vecs.info

\* the encoder calls of the timestep that carry signal s
EventsOf(s) == { j \in 1..Len(enc) : enc[j].signal_ref = s }

\* those made before the end-of-step flush
EarlyEventsOf(s) == { j \in EventsOf(s) : enc[j].site # "flush" }

\* the value of bit in the data bytes an encoder call carries
BitValueIn(data, info, bit) ==
    LET is == get_data_index(info.bits, bit, info.states)
    IN  And8(Shr8(data[is[1]], is[2]), States_mask(info.states))

\* the (signal_ref, bit, value) of the updates of the timestep
StepUpdates ==
    [k \in 1..Len(step_writes) |->
        <<step_writes[k].signal_ref, step_writes[k].bit, step_writes[k].value>>]

\* the timestep of scenario 6: a 2-bit nine-state vector that stores '0', '0'
\* is written bit0 := '1', bit0 := '0', bit1 := '1' and then flushed
GlitchScenario ==
    /\ decode_info = VectorSignals(0, 2, "Nine")
    /\ \A i \in DOMAIN step_start : step_start[i] = 0
    /\ StepUpdates = << <<0, 0, 1>>, <<0, 0, 0>>, <<0, 1, 1>> >>
    /\ phase = "flushed"

\* C2: a write to a bit that is already marked changed, with a value other than
\* the stored one, first makes an encoder call that carries the vector as it was
\* before the write; the written value is stored afterwards and reaches the
\* encoder in the signal's next call, at the latest at the flush. In scenario 6
\* exactly two calls are made, the second with bit1 = '1' and bit0 = '0'.
C2_SecondChangeIsDispatchedFirst ==
    /\ \A k \in 1..Len(step_writes) :
          LET w == step_writes[k]
              info == vecs.info[w.signal_ref]
              first == w.enc_at + 1
          IN  (w.marked /\ w.old # w.value) =>
                 /\ Len(enc) >= first
                 /\ enc[first].signal_ref = w.signal_ref
                 /\ enc[first].site = "second"
                 /\ enc[first].data = w.before
                 /\ BitValueIn(enc[first].data, info, w.bit) = w.old
                 /\ phase = "flushed" =>
                       \E j \in EventsOf(w.signal_ref) :
                          /\ j > first
                          /\ BitValueIn(enc[j].data, info, w.bit) = w.value
                          /\ \A i \in EventsOf(w.signal_ref) : i <= first \/ i >= j
    /\ GlitchScenario =>
          /\ Len(enc) = 2
          /\ BitValueIn(enc[1].data, vecs.info[0], 0) = 1
          /\ BitValueIn(enc[1].data, vecs.info[0], 1) = 0
          /\ BitValueIn(enc[2].data, vecs.info[0], 1) = 1
          /\ BitValueIn(enc[2].data, vecs.info[0], 0) = 0

C2_Witness == GlitchScenario /\ Len(enc) = 2 /\ enc[1].site = "second"

\* C3: right after finish_time_step no signal_change bit and no bit_change byte
\* is set and change_list is empty.
C3_FlushLeavesNothingMarked ==
    phase = "flushed" =>
       /\ \A i \in DOMAIN vecs.signal_change : vecs.signal_change[i] = 0
       /\ \A i \in DOMAIN vecs.bit_change : vecs.bit_change[i] = 0
       /\ vecs.change_list = <<>>

C3_Witness ==
    /\ phase = "flushed"
    /\ Len(step_writes) >= 2
    /\ \E j \in 1..Len(enc) : enc[j].site = "flush"
    /\ \E j \in 1..Len(enc) : enc[j].site # "flush"

\* the updates of the timestep all write the same bit of the same signal and
\* every value differs from the one written before it
SameBitAlternating ==
    /\ Len(step_writes) >= 1
    /\ \A k \in 1..Len(step_writes) :
          /\ step_writes[k].signal_ref = step_writes[1].signal_ref
          /\ step_writes[k].bit = step_writes[1].bit
          /\ k > 1 => step_writes[k].value # step_writes[k - 1].value

\* C4: a flushed timestep whose updates alternate on one bit made as many encoder
\* calls for the signal as there are transitions between successive updates, or
\* one more.
C4_AlternatingBitEventCount ==
    (phase = "flushed" /\ SameBitAlternating) =>
       LET transitions == Len(step_writes) - 1
           events == Cardinality(EventsOf(step_writes[1].signal_ref))
       IN  transitions <= events /\ events <= transitions + 1

C4_Witness ==
    /\ phase = "flushed"
    /\ SameBitAlternating
    /\ Len(step_writes) = 3
    /\ Cardinality(EventsOf(step_writes[1].signal_ref)) = 3

\* no bit is written twice in the timestep
EachBitOnce ==
    \A k, l \in 1..Len(step_writes) :
       (k # l) => <<step_writes[k].signal_ref, step_writes[k].bit>>
                    # <<step_writes[l].signal_ref, step_writes[l].bit>>

\* an update of s in the timestep wrote a value other than the stored one
RealWriteTo(s) ==
    \E k \in 1..Len(step_writes) :
       step_writes[k].signal_ref = s /\ step_writes[k].old # step_writes[k].value

\* C5: in a flushed timestep that wrote no bit twice, a signal has exactly one
\* encoder call (by the dispatch of the full vector or by the flush) if one of
\* its updates changed a stored value, and none otherwise.
C5_DifferentBitsCollapse ==
    (phase = "flushed" /\ EachBitOnce) =>
       \A s \in SignalRefs :
          /\ Cardinality(EventsOf(s)) = IF RealWriteTo(s) THEN 1 ELSE 0
          /\ \A j \in EventsOf(s) : enc[j].site \in {"full", "flush"}

C5_Witness ==
    /\ phase = "flushed"
    /\ EachBitOnce
    /\ \E k, l \in 1..Len(step_writes) :
          /\ k # l
          /\ step_writes[k].signal_ref = step_writes[l].signal_ref
          /\ step_writes[k].old # step_writes[k].value
          /\ step_writes[l].old # step_writes[l].value
          /\ Cardinality(EventsOf(step_writes[k].signal_ref)) = 1

\* C6 as stated: a signal's signal_change bit is set iff it is on change_list.
C6_SignalChangeIffListed ==
    \A s \in SignalRefs : has_signal_changed(vecs, s) <=> s \in Range(vecs.change_list)

\* C6: a signal whose signal_change bit is set is on change_list; a signal on
\* change_list whose bit is clear was dispatched early in the current timestep.
C6_SignalChangeImpliesListed ==
    \A s \in SignalRefs :
       /\ has_signal_changed(vecs, s) => s \in Range(vecs.change_list)
       /\ (s \in Range(vecs.change_list) /\ ~has_signal_changed(vecs, s))
             => EarlyEventsOf(s) # {}

C6_Witness ==
    \E s \in SignalRefs :
       /\ s \in Range(vecs.change_list)
       /\ ~has_signal_changed(vecs, s)
       /\ \E t \in SignalRefs : has_signal_changed(vecs, t)

\* C7 as stated: change_list holds every SignalRef at most once.
C7_ListedAtMostOnce ==
    \A s \in SignalRefs : Count(vecs.change_list, s) <= 1

\* C7: within a timestep, a signal is on change_list once for every early
\* dispatch it had, and once more if its signal_change bit is set; so at most
\* once as long as it was not dispatched early.
C7_ListedOncePerDispatch ==
    \A s \in SignalRefs :
       /\ phase = "open" =>
             Count(vecs.change_list, s) =
                Cardinality(EarlyEventsOf(s)) + (IF has_signal_changed(vecs, s) THEN 1 ELSE 0)
       /\ phase = "flushed" => Count(vecs.change_list, s) = 0

C7_Witness ==
    \E s \in SignalRefs :
       /\ Count(vecs.change_list, s) = 2
       /\ has_signal_changed(vecs, s)
       /\ Cardinality(EarlyEventsOf(s)) = 1

\* C8: a signal with a nonzero bit_change byte has its signal_change bit set.
C8_BitChangeOnlyIfSignalChange ==
    \A s \in SignalRefs :
       (vecs.info[s] # None /\ \E e \in change_range(vecs.info[s]) : vecs.bit_change[e] # 0)
          => has_signal_changed(vecs, s)

C8_Witness ==
    /\ \E s \in SignalRefs :
          /\ \E e \in change_range(vecs.info[s]) : vecs.bit_change[e] # 0
          /\ EventsOf(s) # {}
    /\ \E s \in SignalRefs :
          /\ \A e \in change_range(vecs.info[s]) : vecs.bit_change[e] = 0
          /\ EventsOf(s) # {}

(***************************************************************************)
(* Properties of the layout (SpecLayout).                                  *)
(***************************************************************************)
\* C9 as stated: the visit of the data bytes from the first to the last, and of
\* the slots of a byte from the highest shift to the lowest, meets the bits of
\* the vector in strictly decreasing index, bit W-1 first and bit 0 last.
C9_MsbFirstLayout ==
    /\ \A i, j \in 1..Len(lay_seen) : i < j => lay_seen[i] > lay_seen[j]
    /\ (lay_info # None /\ lay_slot = NumSlots(lay_info)) =>
          /\ Len(lay_seen) = lay_info.bits
          /\ lay_seen[1] = lay_info.bits - 1
          /\ lay_seen[Len(lay_seen)] = 0

(***************************************************************************)
(* Properties of the cycle section (SpecCycle).                            *)
(***************************************************************************)
\* the times of the time_change calls of the section, in order
CycleTimes ==
    LET at == { i \in 1..Len(cyc_calls) : cyc_calls[i].call = "time_change" }
    IN  [i \in at |-> cyc_calls[i].time]

\* C10 as stated: the times given to the successive time_change calls of a cycle
\* section never decrease.
C10_CycleTimesNonDecreasing ==
    \A i, j \in DOMAIN CycleTimes : i < j => u64_le(CycleTimes[i], CycleTimes[j])

\* C11 as stated: when the first delta of the updates of a cycle is 0,
\* read_cycle_signals fails (FailedToParseSection) and the section is not read on.
C11_FirstDeltaZeroFails ==
    (cyc_pc \in {"delta", "error"} /\ cyc_updates # <<>> /\ cyc_updates[1].delta = 0)
        => cyc_pc = "error"

(***************************************************************************)
(* Properties of the VCD body reader (SpecVcd).                            *)
(***************************************************************************)
\* the call that read_values makes when multi_thread is false, run to its end
SingleThreaded ==
    read_single_stream_of_values_loop(
        read_single_stream_of_values_init(body, SliceLen(body) - 1,
                                          SliceLen(body) = 0, TRUE, TRUE))

\* C1: when the multi-threaded read_values of a body finishes, and the
\* single-threaded read of the same body finishes too, the combined encoder
\* holds exactly the calls that the single-threaded read makes, in order.
C1_ChunkedEqualsSingleThreaded ==
    (multi_thread /\ vcd_pc = "done" /\ SingleThreaded.status = "done")
        => vcd_result = SingleThreaded.encoder

(***************************************************************************)
(* Properties of BodyReader (SpecBodyReader).                              *)
(***************************************************************************)
\* the command a line stands for
LineCommand(line) ==
    IF line.kind = "Time" THEN [cmd |-> "Time", value |-> line.value]
    ELSE [cmd |-> "Value", value |-> line.value, id |-> line.id]

\* C12: over a body of well-formed lines, BodyReader never panics, the
\* commands it has yielded so far are those of the first lines, in order,
\* and when it is exhausted it has yielded exactly one command per line:
\* Time(digits), Value(v, id) or Value(first token, id).
C12_OneCommandPerLine ==
    LET lines == fn_input.lines
        cmds == fn_output.cmds
    IN  /\ fn_pc # "panic"
        /\ Len(cmds) <= Len(lines)
        /\ \A i \in 1..Len(cmds) : cmds[i] = LineCommand(lines[i])
        /\ fn_pc = "return" => Len(cmds) = Len(lines)

\* a body of several lines without a line end after the last one, which is
\* a two-token change, has been read to its end
C12_Witness ==
    /\ fn_pc = "return"
    /\ Len(fn_input.lines) >= 2
    /\ fn_input.lines[Len(fn_input.lines)].kind = "Vector"
    /\ fn_input.lines[1].kind = "Time"
    /\ ~IsWhitespace(fn_input.bytes[Len(fn_input.bytes)])
    /\ Len(fn_output.cmds) = Len(fn_input.lines)

(***************************************************************************)
(* Properties of id_to_int (SpecIdToInt).                                  *)
(***************************************************************************)
\* natural numbers of up to 96 bits: six 16-bit limbs, the most significant first
Wide(n) == <<0, 0, 0, 0, n \div 65536, n % 65536>>

WideAdd(a, b) ==
    LET s6 == a[6] + b[6]
        s5 == a[5] + b[5] + (s6 \div 65536)
        s4 == a[4] + b[4] + (s5 \div 65536)
        s3 == a[3] + b[3] + (s4 \div 65536)
        s2 == a[2] + b[2] + (s3 \div 65536)
        s1 == a[1] + b[1] + (s2 \div 65536)
    IN  <<s1 % 65536, s2 % 65536, s3 % 65536, s4 % 65536, s5 % 65536, s6 % 65536>>

\* a * k for k < 2^15
WideTimes(a, k) ==
    LET p6 == a[6] * k
        p5 == a[5] * k + (p6 \div 65536)
        p4 == a[4] * k + (p5 \div 65536)
        p3 == a[3] * k + (p4 \div 65536)
        p2 == a[2] * k + (p3 \div 65536)
        p1 == a[1] * k + (p2 \div 65536)
    IN  <<p1 % 65536, p2 % 65536, p3 % 65536, p4 % 65536, p5 % 65536, p6 % 65536>>

\* a - 1 for a > 0
WidePred(a) ==
    LET k == CHOOSE i \in 1..6 : a[i] > 0 /\ \A j \in (i + 1)..6 : a[j] = 0
    IN  [i \in 1..6 |-> IF i < k THEN a[i] ELSE IF i = k THEN a[i] - 1 ELSE 65535]

RECURSIVE WidePow94(_)
WidePow94(k) == IF k = 0 THEN Wide(1) ELSE WideTimes(WidePow94(k - 1), 94)

\* the bijective base-94 number that id reads as, its first byte least
\* significant: the sum of (id[i] - '!' + 1) * 94^(i - 1)
RECURSIVE BijectiveValueFrom(_, _)
BijectiveValueFrom(id, i) ==
    IF i > Len(id) THEN Wide(0)
    ELSE WideAdd(WideTimes(WidePow94(i - 1), id[i] - 33 + 1),
                 BijectiveValueFrom(id, i + 1))

BijectiveValue(id) == BijectiveValueFrom(id, 1)

IsIdByte(b) == 33 <= b /\ b <= 126

\* C13: id_to_int returns None for the empty identifier, for an identifier
\* with a byte outside '!'..'~' and for one whose bijective base-94 value
\* (first byte least significant) does not fit in 64 bits; otherwise it
\* returns that value minus 1. '!' gives 0, '#' 2, 'c' 66 and '#%' 472.
C13_IdToIntIsBijectiveBase94 ==
    fn_pc = "return" =>
        LET id == fn_input
            n == BijectiveValue(id)
        IN  /\ IF id = <<>> \/ (\E k \in 1..Len(id) : ~IsIdByte(id[k]))
                  \/ n[1] # 0 \/ n[2] # 0
               THEN fn_output = None
               ELSE fn_output = Some(SubSeq(WidePred(n), 3, 6))
            /\ id = <<33>> => fn_output = Some(<<0, 0, 0, 0>>)
            /\ id = <<35>> => fn_output = Some(<<0, 0, 0, 2>>)
            /\ id = <<99>> => fn_output = Some(<<0, 0, 0, 66>>)
            /\ id = <<35, 37>> => fn_output = Some(<<0, 0, 0, 472>>)

\* a call with a ten byte identifier of valid bytes has returned None
C13_Witness ==
    /\ fn_pc = "return" /\ Len(fn_input) = 10 /\ fn_output = None
    /\ \A k \in 1..Len(fn_input) : IsIdByte(fn_input[k])

\* s is below t when both are read as numbers whose first byte is least
\* significant
BelowAsNumber(s, t) ==
    /\ Len(s) = Len(t)
    /\ \E k \in 1..Len(s) : s[k] < t[k] /\ \A j \in (k + 1)..Len(s) : s[j] = t[j]

\* C14: for an identifier of 1 to 5 bytes in '!'..'~', id_to_int returns a
\* value, the same value whenever it is called, and a larger value than for
\* every identifier of the same length that is below it as a number (the
\* first byte being the least significant digit).
C14_DefinedAndMonotoneWithinLength ==
    (/\ fn_pc = "return"
     /\ Len(fn_input) \in 1..5
     /\ \A k \in 1..Len(fn_input) : IsIdByte(fn_input[k]))
        => /\ fn_output # None
           /\ fn_output = id_to_int(fn_input)
           /\ \A t \in ShortIds \cup PlainIds :
                 (Len(t) \in 1..5 /\ BelowAsNumber(t, fn_input))
                    => /\ id_to_int(t) # None
                       /\ u64_lt(id_to_int(t).some, fn_output.some)

\* the call with the five byte identifier c!~!c has returned
C14_Witness ==
    fn_pc = "return" /\ fn_input = <<99, 33, 126, 33, 99>> /\ fn_output # None

(***************************************************************************)
(* Properties of parse_name (SpecParseName).                               *)
(***************************************************************************)
\* C15: for a name made of a prefix, further brackets and a last bracket [n]
\* or [msb:lsb], each after any number of spaces, parse_name returns the
\* index (n, n) or (msb, lsb); without further brackets the name is the
\* prefix and there are no scopes; with further brackets the scopes are the
\* prefix and then the further brackets but the last, from left to right,
\* and the name is the last further bracket. test[0][3][2][0] gives the
\* name [2], the index (0, 0) and the scopes test, [0], [3].
C15_TrailingBracketsBecomeIndexNameAndScopes ==
    (fn_pc = "return" /\ fn_input.parts # None) =>
        LET p == fn_input.parts.some
            n == Len(p.extra)
        IN  /\ fn_output.result = "Ok"
            /\ fn_output.index = Some([msb |-> p.index.msb, lsb |-> p.index.lsb])
            /\ IF n = 0
               THEN fn_output.name = p.prefix /\ fn_output.scopes = <<>>
               ELSE /\ fn_output.name = p.extra[n].bracket
                    /\ fn_output.scopes =
                         <<p.prefix>> \o [k \in 1..(n - 1) |-> p.extra[k].bracket]
            /\ fn_input.name = <<116, 101, 115, 116, 91, 48, 93, 91, 51, 93, 91, 50, 93, 91, 48, 93>>
                 => /\ fn_output.name = <<91, 50, 93>>
                    /\ fn_output.index = Some([msb |-> 0, lsb |-> 0])
                    /\ fn_output.scopes = << <<116, 101, 115, 116>>, <<91, 48, 93>>, <<91, 51, 93>> >>

\* the call with a name of three further brackets, the last one after a
\* space, and an index [1:-1] after spaces has returned
C15_Witness ==
    /\ fn_pc = "return" /\ fn_input.parts # None
    /\ Len(fn_input.parts.some.extra) = 3
    /\ fn_input.parts.some.extra[3].spaces # <<>>
    /\ fn_input.parts.some.index.spaces # <<>>
    /\ fn_input.parts.some.index.lsb < 0
    /\ fn_output.result = "Ok" /\ Len(fn_output.scopes) = 3

\* the name holds neither [ nor ]
NoBracket(name) == \A k \in 1..Len(name) : name[k] # 91 /\ name[k] # 93

\* parse_name has returned the name as it is, no index and no scopes
NameUnchanged ==
    fn_output = [result |-> "Ok", name |-> fn_input.name, index |-> None, scopes |-> <<>>]

\* C16, as stated: for every name without [ and ], parse_name returns the
\* name unchanged, no index and no scopes; the empty name gives the empty
\* string, no index and no scopes.
C16_NameWithoutBracketIsUnchanged ==
    (fn_pc = "return" /\ NoBracket(fn_input.name)) => NameUnchanged

\* C16, amended: for every name without [ and ] that is valid UTF-8,
\* parse_name returns the name unchanged, no index and no scopes; the empty
\* name gives the empty string, no index and no scopes. In a name that is
\* not valid UTF-8 the String differs from the bytes of the name.
C16_Utf8NameWithoutBracketIsUnchanged ==
    (fn_pc = "return" /\ NoBracket(fn_input.name))
        => /\ is_utf8(fn_input.name) => NameUnchanged
           /\ ~is_utf8(fn_input.name) =>
                 /\ fn_output.result = "Ok"
                 /\ fn_output.name = from_utf8_lossy(fn_input.name)
                 /\ fn_output.name # fn_input.name
                 /\ fn_output.index = None /\ fn_output.scopes = <<>>

\* the call with a name of several bytes without a bracket, one of them
\* the two-byte character U+00E9, has returned
C16_Witness ==
    /\ fn_pc = "return"
    /\ Len(fn_input.name) >= 3
    /\ NoBracket(fn_input.name) /\ is_utf8(fn_input.name)
    /\ \E k \in 1..(Len(fn_input.name) - 1) :
           fn_input.name[k] = 195 /\ fn_input.name[k + 1] = 169
    /\ fn_output.result = "Ok"

(***************************************************************************)
(* Properties of read_command (SpecReadCommand).                           *)
(***************************************************************************)
\* the positions p (0-based) such that bytes[p..p+4] is $end
EndAt(bytes) ==
    { p \in 0..(Len(bytes) - 4) : SubSeq(bytes, p + 1, p + 4) = END }

\* C17: for a command made of a keyword, a body without $end in it and
\* $end, read_command returns the keyword's command and the body whatever
\* whitespace stands before the keyword, between the keyword and the body,
\* between the body and $end and after $end: the result has no $end, no
\* leading and no trailing whitespace, and is empty when only whitespace
\* stands between the keyword and $end.
C17_CommandAndBodyWhateverTheWhitespace ==
    (fn_pc = "return" /\ fn_input.parts # None /\ EndAt(fn_input.parts.some.body) = {})
        => /\ fn_output.result = "Ok"
           /\ Some(fn_output.cmd) = VcdCmd_from_bytes(fn_input.parts.some.kw)
           /\ fn_output.body = fn_input.parts.some.body
           /\ EndAt(fn_output.body) = {}
           /\ fn_output.body # <<>> =>
                /\ ~IsWhitespace(fn_output.body[1])
                /\ ~IsWhitespace(fn_output.body[Len(fn_output.body)])

\* the call on "\r\n$var \t wire 1 ! a\t\n$end \r" has returned the body
\* "wire 1 ! a"
C17_Witness ==
    /\ fn_pc = "return" /\ fn_input.parts # None
    /\ \A k \in 1..4 : fn_input.parts.some.space[k] # <<>>
    /\ fn_output.result = "Ok" /\ fn_output.cmd = "Var"
    /\ fn_output.body = <<119, 105, 114, 101, 32, 49, 32, 33, 32, 97>>

\* C18: when read_command returns Ok, the body ended at a $end that is
\* followed by whitespace or by the end of the input, and no earlier $end
\* followed by another byte ended it: the body of a command whose body
\* holds a $end directly followed by a non-whitespace byte is returned whole.
C18_EndOnlyBeforeWhitespaceOrEndOfInput ==
    (fn_pc = "return" /\ fn_output.result = "Ok")
        => /\ \/ fn_output.pos = Len(fn_input.input)
              \/ IsWhitespace(fn_input.input[fn_output.pos + 1])
           /\ fn_input.parts # None => fn_output.body = fn_input.parts.some.body

(***************************************************************************)
(* Properties of the chunk workers of read_values (SpecVcd).               *)
(***************************************************************************)
\* the call that read_values makes for the k-th chunk, run alone to its end
ChunkAlone(k) ==
    read_single_stream_of_values_loop(
        chunk_worker(body, determine_thread_chunks(SliceLen(body), max_threads).some[k]))

RECURSIVE EncodersInChunkOrder(_, _)
EncodersInChunkOrder(k, n) ==
    IF k > n THEN <<>> ELSE ChunkAlone(k).encoder \o EncodersInChunkOrder(k + 1, n)

\* a step of a worker changes the record of that worker only, and to what
\* the worker's own record and input give
OneWorkerSteps ==
    (vcd_pc = "workers" /\ vcd_pc' = "workers")
        => \E k \in 1..Len(workers) :
              /\ workers[k].status = "running"
              /\ workers' = [workers EXCEPT ![k] = read_single_stream_of_values_step(workers[k])]

\* the encoders are combined only when every worker has returned, and the
\* result is the encoders of the chunks, each run alone, in chunk order
MergeAfterAllInChunkOrder ==
    (multi_thread /\ vcd_pc \in {"done", "panic"} /\ workers # <<>>)
        => /\ \A k \in 1..Len(workers) : workers[k].status # "running"
           /\ vcd_pc = "done" => vcd_result = EncodersInChunkOrder(1, Len(workers))

\* C19: in multi-thread mode, in whatever order the workers take their
\* steps and finish, a step of a worker writes only that worker's encoder,
\* the encoders are combined only after every worker has returned, and the
\* final encoder is the workers' encoders one after the other in increasing
\* chunk index.
C19_WorkersAreIndependentAndMergedInChunkOrder ==
    [][OneWorkerSteps]_vars /\ []MergeAfterAllInChunkOrder

\* read_values has finished with two workers that both wrote to their
\* encoder, and the two encoders differ
C19_Witness ==
    /\ multi_thread /\ vcd_pc = "done" /\ Len(workers) = 2
    /\ workers[1].encoder # <<>> /\ workers[2].encoder # <<>>
    /\ workers[1].encoder # workers[2].encoder

\* the positions in the body of the commands that BodyReader yields
RECURSIVE body_commands(_, _)
body_commands(input, pos) ==
    LET r == next(input, pos)
    IN  IF r.panic \/ r.item = None THEN {}
        ELSE {r.item.some[1]} \cup body_commands(input, r.pos)

\* the positions in the body of the commands for which the worker of the
\* chunk that starts at start calls the encoder
RECURSIVE emitted_positions(_, _)
emitted_positions(w, start) ==
    IF w.status # "running" THEN {}
    ELSE LET r == next(w.input2, w.pos)
             w2 == read_single_stream_of_values_step(w)
             here == IF r.item # None /\ Len(w2.encoder) > Len(w.encoder)
                     THEN {start + w.offset + r.item.some[1]}
                     ELSE {}
         IN  here \cup emitted_positions(w2, start)

\* the positions that the worker of a chunk skips before its first newline
SkippedPrefix(chunk) ==
    IF chunk[1] = 0 \/ ByteAt(body, chunk[1] - 1) = 10 THEN {}
    ELSE LET rest == DropBytes(body, chunk[1])
         IN  { chunk[1] + p : p \in 0..(FirstByteIn(rest, 0, SliceLen(rest), {10}) - 1) }

\* C20: when the multi-threaded read of a body that the single-threaded
\* read reads to its end has finished, every command that starts inside the
\* prefix that chunk i > 0 skips up to its first newline has been given to
\* the encoder by the worker of chunk i - 1.
C20_SkippedPrefixIsCoveredByPreviousChunk ==
    (multi_thread /\ vcd_pc = "done" /\ SingleThreaded.status = "done")
        => LET chunks == determine_thread_chunks(SliceLen(body), max_threads).some
           IN  \A i \in 2..Len(chunks) :
                 \A p \in body_commands(body, 0) \cap SkippedPrefix(chunks[i]) :
                    p \in emitted_positions(chunk_worker(body, chunks[i - 1]),
                                            chunks[i - 1][1])

\* a step in which a worker gives a Time command to its encoder: the command
\* starts inside the worker's chunk
TimeCommandInsideTheChunk ==
    (multi_thread /\ vcd_pc = "workers" /\ vcd_pc' = "workers")
        => LET chunks == determine_thread_chunks(SliceLen(body), max_threads).some
           IN  \A k \in 1..Len(workers) :
                  LET w == workers[k]
                      r == next(w.input2, w.pos)
                      p == chunks[k][1] + w.offset + r.item.some[1]
                  IN  (/\ workers'[k].encoder # w.encoder
                       /\ r.item # None
                       /\ r.item.some[2].cmd = "Time")
                          => /\ chunks[k][1] <= p
                             /\ p < chunks[k][1] + chunks[k][2]

\* C21: in the multi-threaded read, every Time command that the worker of a
\* chunk gives to its encoder starts at or after the chunk's start and
\* before the chunk's nominal end (start + chunk size); the chunks do not
\* overlap, so no Time command is given to the encoder by the workers of
\* two different chunks.
C21_NoTimeCommandAtOrBeyondTheChunkEnd == [][TimeCommandInsideTheChunk]_vars

\* the multi-threaded read of a body with a Time command that starts exactly
\* at the nominal end of the first chunk has finished: the first worker has
\* read it and stopped, the second has given it to its encoder
C21_Witness ==
    /\ multi_thread /\ vcd_pc = "done" /\ Len(workers) = 2
    /\ MIN_CHUNK_SIZE \in body_commands(body, 0)
    /\ ByteAt(body, MIN_CHUNK_SIZE) = 35
    /\ workers[1].status = "done" /\ workers[1].pos > MIN_CHUNK_SIZE
    /\ workers[1].encoder = <<>>
    /\ workers[2].encoder = <<vcd_time_change(u64_of(1))>>

\* the commands that BodyReader yields from pos until it has read upto bytes
RECURSIVE commands_read(_, _, _)
commands_read(input, pos, upto) ==
    LET r == next(input, pos)
    IN  IF r.panic \/ r.item = None \/ r.pos > upto THEN <<>>
        ELSE <<r.item.some[2]>> \o commands_read(input, r.pos, upto)

\* the encoder calls that the spec gives for a sequence of commands: a Time
\* command is a time_change, a Value command is a vcd_value_change, after a
\* time_change(0) when it is the first command of the first chunk, and
\* nothing when it precedes every Time command of another chunk
RECURSIVE ExpectedEncoder(_, _, _)
ExpectedEncoder(cmds, is_first, seen_time) ==
    IF cmds = <<>> THEN <<>>
    ELSE LET c == cmds[1]
         IN  IF c.cmd = "Time"
             THEN <<vcd_time_change(parse_u64(c.value).some)>>
                    \o ExpectedEncoder(Tail(cmds), is_first, TRUE)
             ELSE LET event == vcd_value_change(id_to_int(c.id).some, c.value)
                  IN  IF seen_time
                      THEN <<event>> \o ExpectedEncoder(Tail(cmds), is_first, TRUE)
                      ELSE IF is_first
                      THEN <<vcd_time_change(U64_ZERO), event>>
                             \o ExpectedEncoder(Tail(cmds), is_first, TRUE)
                      ELSE ExpectedEncoder(Tail(cmds), is_first, FALSE)

AllButLast(s) == IF s = <<>> THEN s ELSE SubSeq(s, 1, Len(s) - 1)

\* C22: in the encoder of every worker every vcd_value_change comes after a
\* time_change; the encoder holds the calls of the commands read so far,
\* with one time_change(0) before the first value change of the first chunk
\* (or of the single-threaded read) when no Time command came first, and
\* without the value changes that come before the first Time command of
\* another chunk.
C22_ValueChangesFollowATimeChange ==
    \A k \in 1..Len(workers) :
        LET w == workers[k]
            cmds == commands_read(w.input2, 0, w.pos)
        IN  /\ \A i \in 1..Len(w.encoder) :
                  w.encoder[i].call = "vcd_value_change"
                      => \E j \in 1..(i - 1) : w.encoder[j].call = "time_change"
            /\ w.status = "running" => w.encoder = ExpectedEncoder(cmds, k = 1, FALSE)
            \* a worker that has stopped at a Time command has not recorded it
            /\ w.status = "done" =>
                  IF w.encoder = ExpectedEncoder(AllButLast(cmds), k = 1, FALSE)
                  THEN cmds = <<>> \/ cmds[Len(cmds)].cmd = "Time" \/ (k # 1 /\ w.encoder = <<>>)
                  ELSE w.encoder = ExpectedEncoder(cmds, k = 1, FALSE)

\* the first worker has recorded time_change(0) and a value change for a
\* value change that no Time command precedes, and the second worker has
\* read the same value change and recorded nothing
C22_Witness ==
    /\ multi_thread /\ Len(workers) = 2
    /\ Len(workers[1].encoder) = 2
    /\ workers[1].encoder[1] = vcd_time_change(U64_ZERO)
    /\ workers[1].encoder[2].call = "vcd_value_change"
    /\ workers[2].pos > 0 /\ workers[2].encoder = <<>>
    /\ commands_read(workers[2].input2, 0, workers[2].pos) # <<>>

(***************************************************************************)
(* Properties of read_hierarchy (SpecHierarchy).                           *)
(***************************************************************************)
\* the identifier of the first variable decodes to a number below 2^20
FirstIdIsDirect ==
    /\ id_to_int(fn_input[1].id) # None
    /\ u64_lt(id_to_int(fn_input[1].id).some, DIRECT_ID_LIMIT)

\* after the first variable the mode is the one its identifier gives, and
\* before it no mode is chosen; the lookup is returned in map mode only
ModeIsTheFirstVariables ==
    /\ fn_output.var_count >= 1 => (fn_output.use_id_map <=> ~FirstIdIsDirect)
    /\ fn_output.var_count = 0 => ~fn_output.use_id_map
    /\ fn_pc \in {"done", "body", "body_panic"}
          => (fn_output.lookup # None <=> fn_output.use_id_map)
    /\ fn_pc \in {"header", "error"} => fn_output.lookup = None

\* a variable after the first does not change the mode
ModeIsKept == fn_output.var_count >= 1 => fn_output'.use_id_map = fn_output.use_id_map

\* C23: the mode is chosen at the first variable, direct iff id_to_int of
\* its identifier is defined and below 2^20 and map otherwise; no later
\* variable changes it; read_hierarchy returns a lookup map iff the mode is
\* map.
C23_ModeChosenOnceAtTheFirstVariable ==
    []ModeIsTheFirstVariables /\ [][ModeIsKept]_vars

\* read_hierarchy has returned without a lookup after a first variable with
\* the identifier of 2^20 - 1 and a later one with the identifier of 2^20
C23_Witness ==
    /\ fn_pc = "done" /\ Len(fn_input) >= 2
    /\ fn_input[1].id = <<38, 95, 56, 33>>
    /\ \E k \in 2..Len(fn_input) : fn_input[k].id = <<39, 95, 56, 33>>
    /\ fn_output.lookup = None

\* the distinct identifiers of the first n variables, in declaration order
RECURSIVE DistinctIds(_, _)
DistinctIds(cmds, n) ==
    IF n = 0 THEN <<>>
    ELSE LET before == DistinctIds(cmds, n - 1)
         IN  IF \E k \in 1..Len(before) : before[k] = cmds[n].id THEN before
             ELSE Append(before, cmds[n].id)

\* C24: in map mode the variable whose identifier is the k-th distinct one
\* in declaration order has the SignalRef of index k, counted from 1, also
\* when the identifier was declared before; the indices given to n distinct
\* identifiers are 1..n.
C24_MapModeCountsDistinctIdsFromOne ==
    (fn_pc \in {"header", "done"} /\ fn_output.use_id_map)
        => LET n == Len(fn_output.add_var)
               ids == DistinctIds(fn_input, n)
           IN  /\ \A v \in 1..n : \E k \in 1..Len(ids) :
                     /\ ids[k] = fn_input[v].id
                     /\ fn_output.add_var[v].signal_ref = [index |-> u64_of(k)]
               /\ { fn_output.add_var[v].signal_ref : v \in 1..n }
                     = { [index |-> u64_of(k)] : k \in 1..Len(ids) }

\* read_hierarchy has returned the lookup of three variables of two distinct
\* identifiers, the third one a repetition of the first
C24_Witness ==
    /\ fn_pc = "done" /\ fn_output.lookup # None
    /\ Len(fn_output.add_var) = 3
    /\ fn_input[3].id = fn_input[1].id /\ fn_input[2].id # fn_input[1].id
    /\ fn_output.add_var[3].signal_ref = [index |-> U64_ONE]
    /\ Len(fn_output.lookup.some) = 2

(***************************************************************************)
(* Properties of read_signals (SpecSignals).                               *)
(***************************************************************************)
FourMarks ==
    {GHW_SNAPSHOT_SECTION, GHW_CYCLE_SECTION, GHW_DIRECTORY_SECTION, GHW_TAILER_SECTION}

\* the first n sections are snapshot, cycle and directory sections that
\* decode without error
DecodedSections(n) ==
    \A k \in 1..n :
        /\ fn_input[k].mark \in FourMarks \ {GHW_TAILER_SECTION}
        /\ ~fn_input[k].fails

\* C25: read_signals returns a reader only when the last mark read is the
\* tailer's and every section before it is a snapshot, cycle or directory
\* section that decoded without error; when the first mark that is none of
\* the four follows such sections, it returns UnexpectedSection with that
\* mark and reads nothing after it; the encoder has the snapshot and cycle
\* sections read, in order, and nothing for a directory section.
C25_ReaderOnlyAfterTailer ==
    LET n == fn_output.read
    IN  /\ (fn_pc = "return" /\ "ok" \in DOMAIN fn_output.result.some)
              => /\ n >= 1 /\ fn_input[n].mark = GHW_TAILER_SECTION
                 /\ DecodedSections(n - 1)
        /\ \A k \in 1..Len(fn_input) :
              (fn_pc = "return" /\ DecodedSections(k - 1) /\ fn_input[k].mark \notin FourMarks)
                  => /\ n = k
                     /\ fn_output.result.some =
                          [err |-> "UnexpectedSection", mark |-> fn_input[k].mark]
        /\ \A e \in 1..Len(fn_output.encoder) :
              fn_input[fn_output.encoder[e].section].mark
                  \in {GHW_SNAPSHOT_SECTION, GHW_CYCLE_SECTION}
        /\ \A k \in 1..n :
              fn_input[k].mark \in {GHW_SNAPSHOT_SECTION, GHW_CYCLE_SECTION}
                  => \E e \in 1..Len(fn_output.encoder) : fn_output.encoder[e].section = k

\* read_signals has returned a reader after a directory section between a
\* snapshot and a cycle section
C25_Witness ==
    /\ fn_pc = "return" /\ "ok" \in DOMAIN fn_output.result.some
    /\ fn_output.read = 4
    /\ fn_input[1].mark = GHW_SNAPSHOT_SECTION
    /\ fn_input[2].mark = GHW_DIRECTORY_SECTION
    /\ fn_input[3].mark = GHW_CYCLE_SECTION
    /\ Len(fn_output.encoder) = 2

(***************************************************************************)
(* C26: every raw_value_change of a timestep, those of the flush included, *)
(* is made between the time_change of that timestep and the next one, and  *)
(* at every call of time_change the change buffer is clean: change_list is *)
(* empty and no signal and no bit is marked. The buffer is looked at right *)
(* before the call (the timestep is flushed) and right after it (nothing   *)
(* is read yet); an event is added to the encoder only by a step of the    *)
(* open timestep, which leaves the timestep open or flushed.               *)
(***************************************************************************)
NothingPending(vb) ==
    /\ vb.change_list = <<>>
    /\ \A e \in DOMAIN vb.signal_change : vb.signal_change[e] = 0
    /\ \A s \in DOMAIN vb.info : vb.info[s] # None =>
           \A bit \in 0..(vb.info[s].bits - 1) : ~has_bit_changed(vb, vb.info[s], bit)

AtTimeChange == phase = "flushed" \/ (phase = "open" /\ step_writes = <<>>)

EventsInsideTheTimestep ==
    Len(enc') > Len(enc) =>
        /\ phase = "open"
        /\ phase' \in {"open", "flushed"}
        /\ SubSeq(enc', 1, Len(enc)) = enc
        /\ step_start' = step_start

C26_EventsBetweenTimeChangesAndCleanBuffer ==
    [](AtTimeChange => NothingPending(vecs)) /\ [][EventsInsideTheTimestep]_vars

\* a flushed timestep whose flush dispatched a change that was pending
C26_Witness ==
    /\ phase = "flushed"
    /\ Len(step_writes) >= 2
    /\ enc # <<>>
    /\ enc[Len(enc)].site = "flush"
    /\ step_start # [i \in DOMAIN step_start |-> 0]

(***************************************************************************)
(* C28: process_changed_signals emits exactly one event for every          *)
(* SignalRef whose signal_change bit is set when it is called and none for *)
(* any other, also when change_list names a signal twice or names a signal *)
(* whose bit was cleared by an early dispatch.                             *)
(***************************************************************************)
\* the events the step appends to the encoder
NewEvents == SubSeq(enc', Len(enc) + 1, Len(enc'))

EventsOfSignal(events, signal_ref) == { j \in 1..Len(events) : events[j].signal_ref = signal_ref }

FlushEmitsOncePerChangedSignal ==
    (phase = "open" /\ phase' = "flushed") =>
        /\ Len(enc') >= Len(enc)
        /\ \A j \in 1..Len(NewEvents) : NewEvents[j].site = "flush"
        /\ \A s \in DOMAIN vecs.info :
               Cardinality(EventsOfSignal(NewEvents, s)) = IF has_signal_changed(vecs, s) THEN 1 ELSE 0

C28_FlushEmitsOncePerChangedSignal == [][FlushEmitsOncePerChangedSignal]_vars

\* a flush of a change_list that names the signal twice: the signal was
\* dispatched early, changed again, and is emitted once by the flush
C28_Witness ==
    /\ phase = "flushed"
    /\ \E j \in 1..Len(enc) : \E s \in DOMAIN vecs.info :
           /\ enc[j].site = "second"
           /\ enc[j].signal_ref = s
           /\ Cardinality({ k \in 1..Len(enc) : enc[k].site = "flush" /\ enc[k].signal_ref = s }) = 1

(***************************************************************************)
(* C29: a write whose value equals the value stored for the bit changes    *)
(* nothing: data, bit_change, signal_change and change_list stay as they   *)
(* are and no event is emitted, whether the bit is marked or not.          *)
(***************************************************************************)
\* the step is a read_signal_value of the stored value
WritesTheStoredValue ==
    /\ phase = "open"
    /\ Len(step_writes') = Len(step_writes) + 1
    /\ step_writes'[Len(step_writes')].value = step_writes'[Len(step_writes')].old

SameValueWriteChangesNothing == WritesTheStoredValue => (vecs' = vecs /\ enc' = enc)

C29_SameValueWriteChangesNothing == [][SameValueWriteChangesNothing]_vars

\* the stored value was written to a bit that is marked, of a signal that
\* has a pending change, and to a bit that is not marked
C29_Witness ==
    /\ phase = "open"
    /\ \E k, l \in 1..Len(step_writes) :
           /\ step_writes[k].value = step_writes[k].old
           /\ step_writes[k].marked
           /\ step_writes[l].value = step_writes[l].old
           /\ ~step_writes[l].marked
    /\ vecs.change_list # <<>>

(***************************************************************************)
(* C30: the data bytes hold, for every bit, the value of the most recent   *)
(* write to it (0 if it was never written); the early dispatches and the   *)
(* flush leave the data as it is; every event carries the latest value of  *)
(* every bit of its signal at the time of the call, bits last written in   *)
(* an earlier timestep included.                                           *)
(***************************************************************************)
\* the value of a bit in the data bytes of its signal
ValueIn(data, info, bit) ==
    LET is == get_data_index(info.bits, bit, info.states)
    IN  And8(Shr8(data[is[1]], is[2]), States_mask(info.states))

\* the writes to the bit among the first upto writes of the timestep
WritesTo(signal_ref, bit, upto) ==
    { k \in 1..upto : step_writes[k].signal_ref = signal_ref /\ step_writes[k].bit = bit }

\* the value last written to the bit: by one of the first upto writes of the
\* timestep or, failing that, what the data held when the timestep began
LatestValue(signal_ref, bit, upto) ==
    LET ks == WritesTo(signal_ref, bit, upto)
        info == vecs.info[signal_ref]
    IN  IF ks = {}
        THEN ValueIn(Slice(step_start, info.data_start, Cardinality(data_range(info))), info, bit)
        ELSE step_writes[CHOOSE k \in ks : \A l \in ks : l <= k].value

\* the number of writes of the timestep made when the j-th event was emitted
WritesBefore(j) ==
    LET e == enc[j]
        ks == { k \in 1..Len(step_writes) : step_writes[k].enc_at < j }
        k == CHOOSE k \in ks : \A l \in ks : l <= k
    IN  IF e.site = "flush" THEN Len(step_writes)
        ELSE IF e.site = "second" THEN k - 1
        ELSE k

DataIsTheLatestWrite ==
    phase \in {"open", "flushed"} =>
        \A s \in DOMAIN vecs.info : vecs.info[s] # None =>
            \A bit \in 0..(vecs.info[s].bits - 1) :
                get_value(vecs, vecs.info[s], bit) = LatestValue(s, bit, Len(step_writes))

EventsCarryTheLatestValues ==
    \A j \in 1..Len(enc) :
        LET s == enc[j].signal_ref
            info == vecs.info[s]
        IN  \A bit \in 0..(info.bits - 1) :
                ValueIn(enc[j].data, info, bit) = LatestValue(s, bit, WritesBefore(j))

\* the flush leaves the data as it is, and the next timestep begins with it
DataSurvivesTheTimestep ==
    /\ (phase = "open" /\ phase' = "flushed") => vecs'.data = vecs.data
    /\ (phase = "flushed" /\ phase' = "open") => (vecs'.data = vecs.data /\ step_start' = vecs.data)

\* before the first write all data is 0
DataStartsZero == \A i \in DOMAIN step_start : step_start[i] = 0

C30_DataIsTheLatestWritePerBit ==
    /\ DataStartsZero
    /\ [](DataIsTheLatestWrite /\ EventsCarryTheLatestValues)
    /\ [][DataSurvivesTheTimestep]_vars

\* an event that carries a non-zero value of a bit that was not written in
\* its timestep, next to a bit that was
C30_Witness ==
    /\ phase \in {"open", "flushed"}
    /\ \E j \in 1..Len(enc) :
           LET s == enc[j].signal_ref
           IN  \E b1, b2 \in 0..(vecs.info[s].bits - 1) :
                   /\ WritesTo(s, b1, Len(step_writes)) = {}
                   /\ ValueIn(enc[j].data, vecs.info[s], b1) # 0
                   /\ WritesTo(s, b2, WritesBefore(j)) # {}

(***************************************************************************)
(* C27: for every width, a width above 8 that is not a multiple of 8       *)
(* included, the write that leaves every bit of the vector marked makes    *)
(* the full-vector check succeed, so the vector is emitted and its marks   *)
(* are cleared by that same write: no state between two reads shows a      *)
(* vector with all of its bits marked.                                     *)
(***************************************************************************)
AllBitsMarked(vb, signal_ref) ==
    \A bit \in 0..(vb.info[signal_ref].bits - 1) : has_bit_changed(vb, vb.info[signal_ref], bit)

C27_FullyMarkedVectorIsDispatchedAtOnce ==
    phase = "open" =>
        \A s \in DOMAIN vecs.info : vecs.info[s] # None => ~AllBitsMarked(vecs, s)

(***************************************************************************)
(* Properties of BodyReader on bodies of tokens (SpecBodyTokens).          *)
(***************************************************************************)
NoWhitespaceIn(bytes) == \A i \in 1..Len(bytes) : ~IsWhitespace(bytes[i])

\* C31: the tokens of the body are whitespace-delimited: the digits of every
\* Time command and the value and identifier bytes of every Value command
\* that BodyReader yields contain no space, tab, carriage return or newline,
\* also when the body holds tokens of one byte.
C31_EmittedTokensHoldNoWhitespace ==
    fn_pc # "unused" =>
        \A i \in 1..Len(fn_output.items) :
            LET cmd == fn_output.items[i][2]
            IN  /\ NoWhitespaceIn(cmd.value)
                /\ cmd.cmd = "Value" => NoWhitespaceIn(cmd.id)

\* whether the tokens from the k-th on hold a token that the body grammar
\* does not know: outside a comment, not the identifier of a pending
\* two-token value, not starting with #, a scalar value or b B r R s S, and
\* none of $dumpall, $comment, $dumpvars, $dumpoff, $end
RECURSIVE HasUnknownToken(_, _, _, _)
HasUnknownToken(tokens, k, pending, in_comment) ==
    IF k > Len(tokens) THEN FALSE
    ELSE LET t == tokens[k]
         IN  IF in_comment THEN HasUnknownToken(tokens, k + 1, FALSE, t # END)
             ELSE IF pending THEN HasUnknownToken(tokens, k + 1, FALSE, FALSE)
             ELSE IF t[1] = 35 \/ t[1] \in BitValueChars
             THEN HasUnknownToken(tokens, k + 1, FALSE, FALSE)
             ELSE IF t[1] \in VectorValueChars
             THEN HasUnknownToken(tokens, k + 1, TRUE, FALSE)
             ELSE IF t \in {DUMPALL, DUMPVARS, DUMPOFF, END}
             THEN HasUnknownToken(tokens, k + 1, FALSE, FALSE)
             ELSE IF t = COMMENT THEN HasUnknownToken(tokens, k + 1, FALSE, TRUE)
             ELSE TRUE

\* C32: a body that holds a token the body grammar does not know makes the
\* read fail, wherever the token stands, also as the last token: BodyReader
\* never comes to its end (next returning None) on such a body.
C32_UnknownTokenIsFatal ==
    fn_pc \in {"exhausted", "fused"} => ~HasUnknownToken(fn_input.tokens, 1, FALSE, FALSE)

\* the items BodyReader yields from pos on until it is exhausted or panics
RECURSIVE all_items(_, _)
all_items(input, pos) ==
    LET r == next(input, pos)
    IN  IF r.panic THEN [items |-> <<>>, panic |-> TRUE]
        ELSE IF r.item = None THEN [items |-> <<>>, panic |-> FALSE]
        ELSE LET rest == all_items(input, r.pos)
             IN  [rest EXCEPT !.items = <<r.item.some>> \o @]

\* the first byte of the comment of a body with a comment, and the number of
\* bytes from there to the first byte after the whitespace behind its $end
CommentStart(b) == IF b.before = <<>> THEN 0 ELSE Len(JoinTokens(b.before, b.sep)) + 1

CommentLength(b) == Len(JoinTokens(<<CommentOpen>> \o b.inside \o <<CommentClose>>, b.sep)) + 1

\* the body without its comment
WithoutComment(b) ==
    LET tokens == b.before \o b.after
        tail == IsWhitespace(b.bytes[Len(b.bytes)])
    IN  JoinTokens(tokens, b.sep) \o (IF tail THEN <<b.sep>> ELSE <<>>)

\* the items of the body without its comment, those after the place of the
\* comment moved behind it
ItemsAroundComment(b) ==
    LET r == all_items(RunsOf(WithoutComment(b)), 0)
    IN  [r EXCEPT !.items =
            [i \in 1..Len(@) |->
                IF @[i][1] >= CommentStart(b)
                THEN <<@[i][1] + CommentLength(b), @[i][2]>>
                ELSE @[i]]]

VarTypeField(u) == IF u[1] = 0 /\ u[2] = 0 THEN u[3] * 64 + u[4] \div 1024 ELSE -1

DataTypeField(u) == u[4] % 1024

\* C34: an attribute `misc 02` with the packed value u is accepted only if
\* u >> 10 is a member of the VHDL var-type enumeration and u & 0x3ff a
\* member of the data-type enumeration; a u with a field outside its
\* enumeration, a field of 256 for one, is rejected.
C34_PackedFieldsAreValidated ==
    (fn_pc = "return" /\ fn_output.ok) =>
        LET u == parse_u64(fn_input[4])
        IN  /\ u # None
            /\ VarTypeField(u.some) \in FstVhdlVarType
            /\ DataTypeField(u.some) \in FstVhdlDataType

(***************************************************************************)
(* Properties of id_to_int on two identifiers (SpecIdPair).                *)
(***************************************************************************)
\* C35: id_to_int is injective where it is defined: two different
\* identifiers never have the same value, so in direct mode two different
\* identifiers never get the same signal index.
C35_IdToIntIsInjective ==
    (/\ fn_pc = "return"
     /\ fn_input[1] # fn_input[2]
     /\ fn_output[1].value # None
     /\ fn_output[2].value # None) =>
        /\ fn_output[1].value # fn_output[2].value
        /\ fn_output[1].signal_ref # None
        /\ fn_output[2].signal_ref # None
        /\ fn_output[1].signal_ref.some.index # fn_output[2].signal_ref.some.index

\* the identifiers ~ and !! of different lengths, whose values are
\* neighbours (93 and 94)
C35_Witness ==
    /\ fn_pc = "return"
    /\ fn_input = << <<126>>, <<33, 33>> >>
    /\ fn_output[1].value = Some(u64_of(93))
    /\ fn_output[2].value = Some(u64_of(94))

(***************************************************************************)
(* C36: for an identifier that a header variable declares, the signal      *)
(* index passed to vcd_value_change for a value change of the body with    *)
(* that identifier is the index of the SignalRef the header gave the       *)
(* variable, in direct mode and in map mode.                               *)
(***************************************************************************)
C36_BodyIndexIsTheHeadersSignalRef ==
    fn_pc \in {"body", "body_panic"} =>
        \A k \in 1..Len(fn_input) :
            fn_input[k].id = fn_output.body[1].id =>
                /\ fn_pc = "body"
                /\ fn_output.body[1].num_id = Some(SignalRef_index(fn_output.add_var[k].signal_ref))

\* map mode with two different identifiers, the body naming the second
C36_Witness ==
    /\ fn_pc = "body"
    /\ fn_output.lookup # None
    /\ Len(fn_input) >= 2
    /\ fn_input[1].id # fn_input[2].id
    /\ fn_output.body[1].id = fn_input[2].id
    /\ fn_output.body[1].num_id = Some(u64_of(2))

\* direct mode, the body naming a declared identifier
C36_WitnessDirect ==
    /\ fn_pc = "body"
    /\ fn_output.lookup = None
    /\ \E k \in 1..Len(fn_input) : fn_input[k].id = fn_output.body[1].id

(***************************************************************************)
(* C37: for every width and state encoding the bits of a vector are stored *)
(* in slots of their own inside the data range of the signal: after        *)
(* set_value(bit i, v), get_value(bit i) is v, get_value(bit j) is what it *)
(* was for every other bit j, and no byte outside the range has changed:   *)
(* after any writes every bit reads as the value last written to it (0 if  *)
(* none was), every slot lies in the data range and the bytes around the   *)
(* range are still 0.                                                      *)
(***************************************************************************)
C37_BitsHaveSlotsOfTheirOwn ==
    fn_pc \in {"new", "written"} =>
        LET info == fn_input
            vb == [data |-> fn_output.data]
        IN  /\ \A i \in 0..(info.bits - 1) :
                   /\ info.data_start + get_data_index(info.bits, i, info.states)[1] \in data_range(info)
                   /\ get_value(vb, info, i) = fn_output.written[i]
            /\ \A e \in DOMAIN vb.data : e \notin data_range(info) => vb.data[e] = 0

\* a vector of more than 8 bits of which one bit was written back to 0 and
\* every other bit holds the mask of its slot
C37_Witness ==
    /\ fn_pc = "written"
    /\ fn_input.bits > 8
    /\ \E i \in 0..(fn_input.bits - 1) :
           \A j \in 0..(fn_input.bits - 1) :
               get_value([data |-> fn_output.data], fn_input, j) =
                   IF j = i THEN 0 ELSE States_mask(fn_input.states)

(***************************************************************************)
(* Termination of the iteration over a body (SpecBodyTokens).              *)
(***************************************************************************)
\* a call of next that returns: self.pos does not decrease; a returned
\* command has moved self.pos forward, inside the body, and starts after
\* the command returned before it; a call after None returns None and
\* leaves the reader as it is
CallReturns ==
    /\ fn_pc' # "panic"
    /\ fn_output'.pos >= fn_output.pos
    /\ LET n == Len(fn_output'.items)
       IN  n > Len(fn_output.items) =>
               /\ fn_output'.pos > fn_output.pos
               /\ fn_output'.pos <= Len(fn_input.bytes)
               /\ n >= 2 => fn_output'.items[n][1] > fn_output'.items[n - 1][1]
    /\ fn_pc = "exhausted" => fn_pc' = "fused" /\ fn_output' = fn_output

\* a call of next that panics
CallPanics == fn_pc' = "panic" /\ fn_output' = fn_output

(***************************************************************************)
(* C38, as stated: on every finite body the iteration terminates: the      *)
(* start offsets of the returned commands are strictly increasing, the     *)
(* position never decreases, and after finitely many calls next returns    *)
(* None and returns None on every later call. Every call returns, and a    *)
(* call that returns a command moves the position forward by at least one  *)
(* byte of the body, so no more calls than the body has bytes return a     *)
(* command, and the call after the last of them returns None.              *)
(***************************************************************************)
C38_IterationEndsWithNone == [][CallReturns]_vars

(***************************************************************************)
(* C38, amended: the start offsets of the returned commands are strictly   *)
(* increasing, the position never decreases, and after finitely many calls *)
(* either next returns None, and None on every later call, or a call       *)
(* panics on an unknown token: every call returns as above or panics.      *)
(***************************************************************************)
C38_IterationEndsWithNoneOrPanic == [][CallReturns \/ CallPanics]_vars

\* two commands were returned, then None twice
C38_Witness ==
    /\ fn_pc = "fused"
    /\ Len(fn_output.items) >= 2
    /\ fn_output.pos = Len(fn_input.bytes)

(***************************************************************************)
(* The end of a command body (SpecReadCommand).                            *)
(***************************************************************************)
\* where read_command starts to read the body: after the keyword and the
\* whitespace byte that ends it; None when it does not get that far
BodyStart(input) ==
    LET start == skip_whitespace(input, 0)
    IN  IF start.err \/ start.byte # 36 THEN None
        ELSE LET token == read_token(input, start.pos, <<>>)
             IN  IF token.err \/ VcdCmd_from_bytes(token.buf) = None THEN None
                 ELSE Some(token.pos)

\* the positions of the $end at or after a position
EndsFrom(input, from) == { p \in EndAt(input) : p >= from }

\* C39: read_until_end_token ends the body at the earliest position where
\* the four bytes $end occur, also when $, $e or $en stands directly before
\* them: when the input holds a $end after the keyword, read_command
\* returns Ok and has read up to the end of the first one.
C39_BodyEndsAtTheEarliestEnd ==
    (fn_pc = "return" /\ BodyStart(fn_input.input) # None)
        => LET ends == EndsFrom(fn_input.input, BodyStart(fn_input.input).some)
           IN  ends # {} => /\ fn_output.result = "Ok"
                            /\ fn_output.pos = SetMin(ends) + 4

(***************************************************************************)
(* read_values on an empty body (SpecVcd).                                 *)
(***************************************************************************)
\* C40: for a body of length 0, read_values completes without failure in
\* single-thread and in multi-thread mode: it does not panic, at least
\* one chunk is planned, and the encoder it returns holds no events.
C40_EmptyBodyIsReadWithoutFailure ==
    SliceLen(body) = 0
        => /\ vcd_pc # "panic"
           /\ vcd_pc \in {"workers", "done"} => Len(workers) >= 1
           /\ vcd_pc = "done" => vcd_result = <<>>

====
